---- MODULE Spec2Model ----
(***************************************************************************)
(* A model of the engine pool of fusabi-host (src/src/pool.rs) and of the  *)
(* part of the engine (src/src/engine.rs) the pool drives.                 *)
(*                                                                         *)
(* Client threads call EnginePool::acquire, try_acquire, execute,          *)
(* execute_bytecode and shutdown, and PoolHandle::execute,                 *)
(* execute_bytecode, cancel and drop.  Every atomic operation of the code  *)
(* (a load, a fetch_add, a compare_exchange, a channel receive or send) is *)
(* one step, so the steps of different threads interleave as the threads   *)
(* of the program do.                                                      *)
(*                                                                         *)
(* The threads are interchangeable, so the state holds the bag of their    *)
(* local states instead of a state per thread name.  A thread that is in   *)
(* no call and holds no handle has no local state and is not in the bag;   *)
(* a thread holds at most one PoolHandle at a time (a client that holds    *)
(* several is several threads of the model).                               *)
(*                                                                         *)
(* Further specifications of the module drive the other parts of the       *)
(* crate, each with its own variables while the rest stay as they start:   *)
(* LiveSpec (the pool under fair scheduling), LimitSpec (a LimitTracker,   *)
(* src/src/limits.rs), EngineSpec (one Engine with concurrent cancel,      *)
(* src/src/engine.rs) and SandboxSpec (the Sandboxes of a process,         *)
(* src/src/sandbox.rs).                                                    *)
(***************************************************************************)
EXTENDS Integers, Sequences, FiniteSets, Bags, TLC

\* Bounds of the model.
NumThreads == 2
MaxSize == 2
MaxAcquisitions == 2
\* The Sandboxes that are alive at one time in the process.
MaxSandboxes == 2
\* The capabilities the client adds to and removes from a set: this many,
\* from the head of Capability::all().
MaxToggled == 3
\* The longest host name asked of a NetPolicy, in characters; the entries
\* of the policy are one character shorter, before the `*.` of a wildcard.
MaxHostLen == 3
\* The longest source text compiled, in bytes, and the largest version byte
\* tried below 255.
MaxSourceLen == 2
MaxVersionByte == 2
\* The handles issued one after the other on one pooled engine.
MaxCheckouts == 2
\* Limits.max_instructions of the engines' configuration, which the client
\* sets through PoolConfig::with_limits: small, so that short sources
\* reach it.
max_instructions == 100

\* Engine::execute_bytecode: the shortest buffer it accepts.
MinBytecodeLen == 8
\* simulate_execution records source.len() * 10 instructions.
InstructionsPerByte == 10
\* simulate_bytecode_execution records 100 instructions.
BytecodeInstructions == 100
NoEngine == 0

\* The inputs of execute: a source text, by its length, and whether the
\* wall clock has passed the execution timeout when check_timeout reads it.
Sources == { [len |-> l, late |-> b] : l \in {2, 11}, b \in BOOLEAN }
\* The inputs of execute_bytecode: a buffer, by its length and whether its
\* first four bytes are the magic.
Bytecodes == { [len |-> l, magic |-> m, late |-> b] :
                 l \in {4, 8}, m \in BOOLEAN, b \in BOOLEAN }

VARIABLES
    phase,          \* "unbuilt", "ready" (EnginePool::new returned Ok) or "failed"
    size,           \* PoolConfig.size
    lazy_init,      \* PoolConfig.lazy_init
    engine_rx,      \* the bounded channel of available engines (ids, in order)
    created,        \* EnginePool.created
    shutdown,       \* EnginePool.shutdown
    acquisitions,   \* PoolStatsInner.acquisitions
    releases,       \* PoolStatsInner.releases
    timeouts,       \* PoolStatsInner.timeouts
    executions,     \* PoolStatsInner.executions
    NEXT_ID,        \* Engine::new's process-wide id counter
    engines,        \* the ids of the PooledEngines constructed so far
    discarded,      \* the engines destroyed because try_send found the channel full
    cancelled,      \* engine id -> ExecutionContext.cancelled
    threads,        \* the bag of the local states of the threads that are in a
                    \* call or hold a handle, each a record:
                    \*   pc      where the thread is in its call ("idle": in none)
                    \*   op      the call it is in ("none": in none)
                    \*   handle  PoolHandle.engine of the handle it holds, or NoEngine
                    \*   created the local `created` of acquire / try_acquire
                    \*   engine  the local `engine` of PoolHandle::drop
                    \*   result  what handle.execute returned inside EnginePool::execute
    ret,            \* the call that returned in the latest step, the kind of its
                    \* result and the count of a PoolExhausted (NoReturn when the
                    \* step returned from no call)
    \* a LimitTracker on its own (src/src/limits.rs)
    limits,         \* LimitTracker.limits: the ceiling of each resource, or None
    limit_tracker,  \* the counters of the LimitTracker
    overflow_checks,\* whether the build checks integer overflow (the dev
                    \* profile does and panics, the release profile wraps)
    \* an Engine's ExecutionContext driven step by step (src/src/engine.rs)
    context,        \* ExecutionContext: cancelled, custom, the tracker's count
    driver,         \* where the thread driving the engine is in Engine::execute
    cancel_pending, \* history: cancel() was called and no execute has returned
                    \* Cancelled since
    \* the Sandboxes of one process (src/src/sandbox.rs)
    sandboxes,      \* the live Sandboxes: id -> [config, temp_dir]
    temp_dirs,      \* the directories that exist under std::env::temp_dir()
    \* a Capabilities set and the calls on it (src/src/capabilities.rs)
    granted,        \* Capabilities.granted of the set the client works on
    other,          \* Capabilities.granted of the argument of merge / intersect
    last_op,        \* history: capability -> the latest of "added", "removed"
                    \* done to it ("none": untouched since construction)
    \* one pooled engine through its checkouts (src/src/pool.rs)
    checkout,       \* n: the handles issued on the engine so far; held: the
                    \* latest of them is not dropped yet
    \* the semaphore of an AsyncEnginePool around the pool (src/src/pool.rs)
    permits         \* the permits available in AsyncEnginePool.semaphore

vars == << phase, size, lazy_init, engine_rx, created, shutdown, acquisitions,
           releases, timeouts, executions, NEXT_ID, engines, discarded,
           cancelled, threads, ret, limits, limit_tracker, overflow_checks,
           context, driver, cancel_pending, sandboxes, temp_dirs,
           granted, other, last_op, checkout, permits >>

poolVars == << phase, size, lazy_init, engine_rx, created, shutdown,
               acquisitions, releases, timeouts, executions, NEXT_ID, engines,
               discarded, cancelled, threads >>
trackerVars == << limits, limit_tracker, overflow_checks >>
contextVars == << context, driver, cancel_pending >>
sandboxVars == << sandboxes, temp_dirs >>
capVars == << granted, other, last_op >>
reuseVars == << checkout >>
asyncVars == << permits >>
\* What a step of the pool leaves alone.
besidePool ==
    << trackerVars, contextVars, sandboxVars, capVars, reuseVars, asyncVars >>

config == << phase, size, lazy_init >>
counters == << acquisitions, releases, timeouts, executions >>
engineVars == << NEXT_ID, engines, discarded, cancelled >>

----------------------------------------------------------------------------
\* No call returned in the latest step.
NoReturn == [ call |-> "none", value |-> "none", count |-> 0 ]

\* The call `call` returned `value` (count: the field of PoolExhausted).
Return(call, value) ==
    [ call |-> call, value |-> value,
      count |-> IF value = "PoolExhausted" THEN size ELSE 0 ]

\* PoolConfig::new: size.max(1).
PoolConfig_new(n) == IF n < 1 THEN 1 ELSE n

\* Seq of the ids a, a+1, ..., a+n-1.
IdRun(a, n) == [ i \in 1..n |-> a + i - 1 ]

\* The elements of a sequence.
Range(s) == { s[i] : i \in 1..Len(s) }

\* The local states some thread is in.
Locals == BagToSet(threads)

\* One thread moves from local state r to local state r2.
Step(r, r2) == threads' = (threads (-) SetToBag({r})) (+) SetToBag({r2})

\* A thread with local state r ends its call and holds nothing.
Leave(r) == threads' = threads (-) SetToBag({r})

\* A thread that was in no call and held nothing enters local state r.
Enter(r) == threads' = threads (+) SetToBag({r})

\* The local state of a thread that has just called `o`.
NewCall(o) ==
    [ pc |-> "count", op |-> o, handle |-> NoEngine, created |-> 0,
      engine |-> NoEngine, result |-> "none" ]

\* The parts of the state a specification does not drive stay as they are
\* here.
NoPool ==
    /\ phase = "unbuilt"
    /\ size = 1
    /\ lazy_init = FALSE
    /\ engine_rx = << >>
    /\ created = 0
    /\ shutdown = FALSE
    /\ acquisitions = 0
    /\ releases = 0
    /\ timeouts = 0
    /\ executions = 0
    /\ NEXT_ID = 1
    /\ engines = {}
    /\ discarded = {}
    /\ cancelled = << >>
    /\ threads = EmptyBag

NoTracker ==
    /\ limits = << >>
    /\ limit_tracker = << >>
    /\ overflow_checks = FALSE

NoContext ==
    /\ context = << >>
    /\ driver = << >>
    /\ cancel_pending = FALSE

NoSandbox ==
    /\ sandboxes = << >>
    /\ temp_dirs = {}

NoCaps ==
    /\ granted = {}
    /\ other = {}
    /\ last_op = << >>

\* No handle was issued yet.
NoCheckout ==
    /\ checkout = [ n |-> 0, held |-> FALSE ]
    /\ permits = 0

Init ==
    /\ NoTracker
    /\ NoContext
    /\ NoSandbox
    /\ NoCaps
    /\ NoCheckout
    /\ phase = "unbuilt"
    /\ size \in { PoolConfig_new(n) : n \in 0..MaxSize }
    /\ lazy_init \in BOOLEAN
    /\ engine_rx = << >>
    /\ created = 0
    /\ shutdown = FALSE
    /\ acquisitions = 0
    /\ releases = 0
    /\ timeouts = 0
    /\ executions = 0
    /\ NEXT_ID = 1
    /\ engines = {}
    /\ discarded = {}
    /\ cancelled = << >>
    /\ threads = EmptyBag
    /\ ret = NoReturn

\* A constructor that fills the pool whatever lazy_init says.
EnginePool_new_eager ==
    /\ phase = "unbuilt"
    /\ phase' = "ready"
    /\ engine_rx' = IdRun(NEXT_ID, size)
    /\ created' = size
    /\ NEXT_ID' = NEXT_ID + size
    /\ engines' = NEXT_ID..(NEXT_ID + size - 1)
    /\ cancelled' = [ e \in NEXT_ID..(NEXT_ID + size - 1) |-> FALSE ]
    /\ ret' = NoReturn
    /\ UNCHANGED << size, lazy_init, shutdown, counters, discarded, threads >>

\* EnginePool::new.  failAt = 0: every Engine::new succeeds; failAt = k: the
\* k-th Engine::new of the loop fails and new returns its error.
EnginePool_new ==
    /\ phase = "unbuilt"
    /\ \E failAt \in 0..size :
         IF lazy_init
         THEN /\ phase' = "ready"
              /\ UNCHANGED << engine_rx, created, NEXT_ID, engines, cancelled >>
         ELSE IF failAt = 0
         THEN /\ phase' = "ready"
              /\ engine_rx' = IdRun(NEXT_ID, size)
              /\ created' = size
              /\ NEXT_ID' = NEXT_ID + size
              /\ engines' = NEXT_ID..(NEXT_ID + size - 1)
              /\ cancelled' = [ e \in NEXT_ID..(NEXT_ID + size - 1) |-> FALSE ]
         ELSE /\ phase' = "failed"
              /\ NEXT_ID' = NEXT_ID + failAt
              /\ UNCHANGED << engine_rx, created, engines, cancelled >>
    /\ ret' = NoReturn
    /\ UNCHANGED << size, lazy_init, shutdown, counters, discarded, threads >>

----------------------------------------------------------------------------
\* Engine::execute past the cancellation check: context.reset, then
\* simulate_execution (check_timeout, then record_instructions(len * 10)
\* on the fresh tracker, whose count starts at 0).
simulate_execution(src) ==
    IF src.late THEN "LimitViolation"
    ELSE IF src.len * InstructionsPerByte > max_instructions
    THEN "LimitViolation"
    ELSE "Value"

\* Engine::execute_bytecode past the cancellation check: context.reset, the
\* header check, then simulate_bytecode_execution.
simulate_bytecode_execution(bc) ==
    IF bc.len < MinBytecodeLen \/ ~bc.magic THEN "InvalidBytecode"
    ELSE IF bc.late THEN "LimitViolation"
    ELSE IF BytecodeInstructions > max_instructions
    THEN "LimitViolation"
    ELSE "Value"

\* ExecutionContext::is_cancelled.
is_cancelled(e) == cancelled[e]

\* Engine::execute / Engine::execute_bytecode on engine e: the kind of Error
\* (or "Value") the call returns, where `outcome` is what the run past the
\* cancellation check and the reset returns.
Engine_execute(e, outcome) ==
    IF is_cancelled(e) THEN "Cancelled" ELSE outcome

\* ExecutionContext::reset as Engine::execute reaches it: not at all on a
\* cancelled engine, and otherwise it stores false in the flag.
Engine_reset(e) ==
    cancelled' = IF is_cancelled(e) THEN cancelled
                 ELSE [ cancelled EXCEPT ![e] = FALSE ]

----------------------------------------------------------------------------
\* The calls that wait on the channel (acquire, and execute and
\* execute_bytecode through acquire).
Blocking == { "acquire", "execute" }

\* The number of threads in local state r.
Count(r) == CopiesIn(r, threads)

\* The number of threads whose local state is in the set S.
Total(S) ==
    LET sum[T \in SUBSET S] ==
            IF T = {} THEN 0
            ELSE LET r == CHOOSE x \in T : TRUE IN Count(r) + sum[T \ {r}]
    IN sum[S]

\* The number of calls that have passed the shutdown check and not yet
\* counted themselves.
Counting == Total({ r \in Locals : r.pc = "count" })

\* The model starts no call that would take acquisitions past its bound.
CanStart == acquisitions + Counting < MaxAcquisitions

\* A thread is in no call and holds no handle.
SomeFree == BagCardinality(threads) < NumThreads

\* A shutdown check that lets callers in while engines are available.
is_shutdown_when_empty == shutdown /\ Len(engine_rx) = 0

\* `self.shutdown.load(Ordering::Relaxed)`.
is_shutdown == shutdown

\* The first statement of acquire / try_acquire, by a free thread: the
\* shutdown check.
shutdown_check(o) ==
    /\ phase = "ready"
    /\ SomeFree
    /\ is_shutdown \/ CanStart
    /\ IF is_shutdown
       THEN /\ ret' = Return(o, "PoolShutdown")
            /\ UNCHANGED threads
       ELSE /\ Enter(NewCall(o))
            /\ ret' = NoReturn
    /\ UNCHANGED << config, engine_rx, created, shutdown, counters, engineVars >>

\* EnginePool::acquire is called.
acquire == shutdown_check("acquire")

\* EnginePool::try_acquire is called.
try_acquire == shutdown_check("try_acquire")

\* EnginePool::execute or EnginePool::execute_bytecode is called: both begin
\* with `let handle = self.acquire()?` and differ from there on.
execute == shutdown_check("execute")

\* A call that goes on to the receive without counting itself.
count_acquisition_skipped(r) ==
    /\ r.pc = "count"
    /\ Step(r, [ r EXCEPT !.pc = "recv" ])
    /\ ret' = NoReturn
    /\ UNCHANGED << config, engine_rx, created, shutdown, counters, engineVars >>

\* `self.stats.acquisitions.fetch_add(1, Ordering::Relaxed)`.
count_acquisition(r) ==
    /\ r.pc = "count"
    /\ acquisitions' = acquisitions + 1
    /\ Step(r, [ r EXCEPT !.pc = "recv" ])
    /\ ret' = NoReturn
    /\ UNCHANGED << config, engine_rx, created, shutdown, releases, timeouts,
                    executions, engineVars >>

\* The local state of a thread that holds a handle on engine e, between calls.
Holder(e) ==
    [ pc |-> "idle", op |-> "none", handle |-> e, created |-> 0,
      engine |-> NoEngine, result |-> "none" ]

\* A PoolHandle owning engine e is built for the thread in r: acquire and
\* try_acquire return it; execute and execute_bytecode go on to run.
issue(r, e) ==
    IF r.op \in { "acquire", "try_acquire" }
    THEN /\ ret' = Return(r.op, "Ok")
         /\ Step(r, Holder(e))
    ELSE /\ ret' = NoReturn
         /\ Step(r, [ r EXCEPT !.pc = "run", !.handle = e ])

\* The call of the thread in r returns the error err.
fail(r, err) ==
    /\ ret' = Return(r.op, err)
    /\ Leave(r)

\* try_acquire sharing the tail of acquire: count a timeout, PoolTimeout.
no_slot_timeout(r) ==
    /\ Step(r, [ r EXCEPT !.pc = "timeout", !.created = 0 ])
    /\ ret' = NoReturn

\* No creation slot: acquire goes on to count a timeout, try_acquire returns
\* PoolExhausted.
no_slot(r) ==
    IF r.op \in Blocking
    THEN /\ Step(r, [ r EXCEPT !.pc = "timeout", !.created = 0 ])
         /\ ret' = NoReturn
    ELSE fail(r, "PoolExhausted")

\* The receive found no engine: lazy pools go on to the creation counter.
recv_failed(r) ==
    IF lazy_init
    THEN /\ Step(r, [ r EXCEPT !.pc = "load" ])
         /\ ret' = NoReturn
    ELSE no_slot(r)

\* A receive that hands out the head of the channel and leaves it there.
recv_keep(r) ==
    IF Len(engine_rx) > 0
    THEN /\ UNCHANGED engine_rx
         /\ issue(r, Head(engine_rx))
    ELSE /\ recv_failed(r)
         /\ UNCHANGED engine_rx

\* A receive that a lazy pool with a free creation slot skips: growth first.
recv_grow_first(r) ==
    IF Len(engine_rx) > 0 /\ ~(lazy_init /\ created < size)
    THEN /\ engine_rx' = Tail(engine_rx)
         /\ issue(r, Head(engine_rx))
    ELSE /\ recv_failed(r)
         /\ UNCHANGED engine_rx

\* The receive of an engine from the channel: the channel hands out its
\* head and keeps the rest.
recv(r) ==
    IF Len(engine_rx) > 0
    THEN /\ engine_rx' = Tail(engine_rx)
         /\ issue(r, Head(engine_rx))
    ELSE /\ recv_failed(r)
         /\ UNCHANGED engine_rx

\* A receive that looks at the shutdown flag again before it takes an engine.
acquire_recv_rechecked(r) ==
    /\ r.pc = "recv"
    /\ r.op \in Blocking
    /\ IF is_shutdown
       THEN /\ fail(r, "PoolShutdown")
            /\ UNCHANGED engine_rx
       ELSE recv(r)
    /\ UNCHANGED << config, created, shutdown, counters, engineVars >>

\* acquire: `self.engine_rx.recv_timeout(self.config.acquire_timeout)`.  With
\* an engine in the channel it returns it; with none, the step is the expiry
\* of the timeout (a waiting thread is one that has not taken the step).
acquire_recv(r) ==
    /\ r.pc = "recv"
    /\ r.op \in Blocking
    /\ recv(r)
    /\ UNCHANGED << config, created, shutdown, counters, engineVars >>

\* try_acquire: `self.engine_rx.try_recv()`.  The pool holds a sender, so the
\* channel is never disconnected.
try_acquire_recv(r) ==
    /\ r.pc = "recv"
    /\ r.op = "try_acquire"
    /\ recv(r)
    /\ UNCHANGED << config, created, shutdown, counters, engineVars >>

\* `let created = self.created.load(Ordering::Relaxed); if created < size`.
lazy_load(r) ==
    /\ r.pc = "load"
    /\ IF created < size
       THEN /\ Step(r, [ r EXCEPT !.pc = "cas", !.created = created ])
            /\ ret' = NoReturn
       ELSE no_slot(r)
    /\ UNCHANGED << config, engine_rx, created, shutdown, counters, engineVars >>

\* The value compare_exchange(expected, expected + 1) stores when it succeeds.
cas_store(expected) == expected + 1

\* A plain store of created + 1 in place of the compare-and-swap.
lazy_cas_store(r) ==
    /\ r.pc = "cas"
    /\ created' = cas_store(r.created)
    /\ Step(r, [ r EXCEPT !.pc = "new", !.created = 0 ])
    /\ ret' = NoReturn
    /\ UNCHANGED << config, engine_rx, shutdown, counters, engineVars >>

\* A compare-and-swap in a loop: the loser reads the counter again.
lazy_cas_retry(r) ==
    /\ r.pc = "cas"
    /\ IF created = r.created
       THEN /\ created' = cas_store(r.created)
            /\ Step(r, [ r EXCEPT !.pc = "new", !.created = 0 ])
       ELSE /\ Step(r, [ r EXCEPT !.pc = "load", !.created = 0 ])
            /\ UNCHANGED created
    /\ ret' = NoReturn
    /\ UNCHANGED << config, engine_rx, shutdown, counters, engineVars >>

\* `self.created.compare_exchange(created, created + 1, ..).is_ok()`; the
\* local `created` is dead afterwards.
lazy_cas(r) ==
    /\ r.pc = "cas"
    /\ IF created = r.created
       THEN /\ created' = cas_store(r.created)
            /\ Step(r, [ r EXCEPT !.pc = "new", !.created = 0 ])
            /\ ret' = NoReturn
       ELSE /\ no_slot(r)
            /\ UNCHANGED created
    /\ UNCHANGED << config, engine_rx, shutdown, counters, engineVars >>

\* A construction that gives its creation slot back when it fails.
lazy_new_slot_returned(r) ==
    /\ r.pc = "new"
    /\ NEXT_ID' = NEXT_ID + 1
    /\ \E io_ok \in BOOLEAN :
         IF io_ok
         THEN /\ engines' = engines \cup { NEXT_ID }
              /\ cancelled' = (NEXT_ID :> FALSE) @@ cancelled
              /\ issue(r, NEXT_ID)
              /\ UNCHANGED created
         ELSE /\ fail(r, "Io")
              /\ created' = created - 1
              /\ UNCHANGED << engines, cancelled >>
    /\ UNCHANGED << config, engine_rx, shutdown, counters, discarded >>

\* `let engine = Engine::new(..)?` and the handle built around it.  Engine::new
\* takes the next id, then builds the sandbox, which fails when the isolated
\* directory cannot be created (io_ok = FALSE).
lazy_new(r) ==
    /\ r.pc = "new"
    /\ NEXT_ID' = NEXT_ID + 1
    /\ \E io_ok \in BOOLEAN :
         IF io_ok
         THEN /\ engines' = engines \cup { NEXT_ID }
              /\ cancelled' = (NEXT_ID :> FALSE) @@ cancelled
              /\ issue(r, NEXT_ID)
         ELSE /\ fail(r, "Io")
              /\ UNCHANGED << engines, cancelled >>
    /\ UNCHANGED << config, engine_rx, created, shutdown, counters, discarded >>

\* A timeout that is returned and not counted.
acquire_timeout_uncounted(r) ==
    /\ r.pc = "timeout"
    /\ fail(r, "PoolTimeout")
    /\ UNCHANGED << config, engine_rx, created, shutdown, counters, engineVars >>

\* `self.stats.timeouts.fetch_add(1, ..); Err(Error::PoolTimeout)`.
acquire_timeout(r) ==
    /\ r.pc = "timeout"
    /\ timeouts' = timeouts + 1
    /\ fail(r, "PoolTimeout")
    /\ UNCHANGED << config, engine_rx, created, shutdown, acquisitions, releases,
                    executions, engineVars >>

----------------------------------------------------------------------------
\* EnginePool::execute past acquire: `handle.execute(source)`; the handle is
\* dropped before the call returns the result.
execute_run(r) ==
    /\ r.pc = "run"
    /\ \E src \in Sources :
         Step(r, [ r EXCEPT !.pc = "drop",
                            !.result = Engine_execute(r.handle,
                                           simulate_execution(src)) ])
    /\ Engine_reset(r.handle)
    /\ ret' = NoReturn
    /\ UNCHANGED << config, engine_rx, created, shutdown, counters, NEXT_ID,
                    engines, discarded >>

\* EnginePool::execute_bytecode past acquire: `handle.execute_bytecode(..)`.
execute_bytecode_run(r) ==
    /\ r.pc = "run"
    /\ \E bc \in Bytecodes :
         Step(r, [ r EXCEPT !.pc = "drop", !.op = "execute_bytecode",
                            !.result = Engine_execute(r.handle,
                                           simulate_bytecode_execution(bc)) ])
    /\ Engine_reset(r.handle)
    /\ ret' = NoReturn
    /\ UNCHANGED << config, engine_rx, created, shutdown, counters, NEXT_ID,
                    engines, discarded >>

\* The thread in r holds a handle and is between calls.
Holding(r) == r.pc = "idle" /\ r.handle # NoEngine

\* An execute through the handle that counts itself as an execution.
PoolHandle_execute_counted(r) ==
    /\ Holding(r)
    /\ \E src \in Sources :
         ret' = Return("PoolHandle_execute",
                       Engine_execute(r.handle, simulate_execution(src)))
    /\ Engine_reset(r.handle)
    /\ executions' = executions + 1
    /\ UNCHANGED << config, engine_rx, created, shutdown, acquisitions,
                    releases, timeouts, NEXT_ID, engines, discarded, threads >>

\* PoolHandle::execute by the thread that holds the handle.
PoolHandle_execute(r) ==
    /\ Holding(r)
    /\ \E src \in Sources :
         ret' = Return("PoolHandle_execute",
                       Engine_execute(r.handle, simulate_execution(src)))
    /\ Engine_reset(r.handle)
    /\ UNCHANGED << config, engine_rx, created, shutdown, counters, NEXT_ID,
                    engines, discarded, threads >>

\* PoolHandle::execute_bytecode by the thread that holds the handle.
PoolHandle_execute_bytecode(r) ==
    /\ Holding(r)
    /\ \E bc \in Bytecodes :
         ret' = Return("PoolHandle_execute_bytecode",
                       Engine_execute(r.handle,
                                      simulate_bytecode_execution(bc)))
    /\ Engine_reset(r.handle)
    /\ UNCHANGED << config, engine_rx, created, shutdown, counters, NEXT_ID,
                    engines, discarded, threads >>

\* PoolHandle::cancel: Engine::cancel on the owned engine.
PoolHandle_cancel(r) ==
    /\ Holding(r)
    /\ cancelled' = [ cancelled EXCEPT ![r.handle] = TRUE ]
    /\ ret' = NoReturn
    /\ UNCHANGED << config, engine_rx, created, shutdown, counters, NEXT_ID,
                    engines, discarded, threads >>

\* What `self.engine.take()` leaves in the handle.
take == NoEngine

\* PoolHandle::drop, first step: `self.engine.take()` into the local `engine`
\* and `self.stats.releases.fetch_add(1, ..)`.  The handle is dropped by the
\* thread that holds it, or at the end of EnginePool::execute.
drop(r) ==
    /\ r.handle # NoEngine
    /\ r.pc = "idle" \/ r.pc = "drop"
    /\ Step(r, [ r EXCEPT !.pc = "drop_time", !.handle = take,
                          !.engine = r.handle ])
    /\ releases' = releases + 1
    /\ ret' = NoReturn
    /\ UNCHANGED << config, engine_rx, created, shutdown, acquisitions, timeouts,
                    executions, engineVars >>

\* PoolStatsInner::add_execution_time: `self.executions.fetch_add(1, ..)` (the
\* nanosecond total is not modelled).
add_execution_time(r) ==
    /\ r.pc = "drop_time"
    /\ executions' = executions + 1
    /\ Step(r, [ r EXCEPT !.pc = "drop_send" ])
    /\ ret' = NoReturn
    /\ UNCHANGED << config, engine_rx, created, shutdown, acquisitions, releases,
                    timeouts, engineVars >>

\* A channel built one slot short: bounded(size - 1).
has_room_short == Len(engine_rx) < size - 1

\* Sender::try_send on the bounded channel: whether there is room.
has_room == Len(engine_rx) < size

\* A drop that destroys its engine and sends nothing.
drop_send_lost(r) ==
    /\ r.pc = "drop_send"
    /\ discarded' = discarded \cup { r.engine }
    /\ UNCHANGED engine_rx
    /\ Leave(r)
    /\ ret' = IF r.op = "none" THEN NoReturn
              ELSE Return(r.op, r.result)
    /\ UNCHANGED << config, created, shutdown, counters, NEXT_ID, engines,
                    cancelled >>

\* A drop that sends the engine back only after a successful execution.
drop_send_on_success(r) ==
    /\ r.pc = "drop_send"
    /\ IF has_room /\ r.result \in { "none", "Value" }
       THEN /\ engine_rx' = Append(engine_rx, r.engine)
            /\ UNCHANGED discarded
       ELSE /\ discarded' = discarded \cup { r.engine }
            /\ UNCHANGED engine_rx
    /\ Leave(r)
    /\ ret' = IF r.op = "none" THEN NoReturn
              ELSE Return(r.op, r.result)
    /\ UNCHANGED << config, created, shutdown, counters, NEXT_ID, engines,
                    cancelled >>

\* A drop whose send fails once the pool is shut down.
drop_send_closed(r) ==
    /\ r.pc = "drop_send"
    /\ IF has_room /\ ~shutdown
       THEN /\ engine_rx' = Append(engine_rx, r.engine)
            /\ UNCHANGED discarded
       ELSE /\ discarded' = discarded \cup { r.engine }
            /\ UNCHANGED engine_rx
    /\ Leave(r)
    /\ ret' = IF r.op = "none" THEN NoReturn
              ELSE Return(r.op, r.result)
    /\ UNCHANGED << config, created, shutdown, counters, NEXT_ID, engines,
                    cancelled >>

\* PoolHandle::drop, last step: `let _ = self.return_tx.try_send(engine)`:
\* with room the engine joins the channel, without room the send fails and
\* the engine is destroyed.  (mark_used writes last_used and use_count, which
\* no code reads; they are not part of the state.)  When the handle was that
\* of EnginePool::execute / execute_bytecode, the call returns here.
drop_send(r) ==
    /\ r.pc = "drop_send"
    /\ IF has_room
       THEN /\ engine_rx' = Append(engine_rx, r.engine)
            /\ UNCHANGED discarded
       ELSE /\ discarded' = discarded \cup { r.engine }
            /\ UNCHANGED engine_rx
    /\ Leave(r)
    /\ ret' = IF r.op = "none" THEN NoReturn
              ELSE Return(r.op, r.result)
    /\ UNCHANGED << config, created, shutdown, counters, NEXT_ID, engines,
                    cancelled >>

\* What EnginePool::shutdown stores in the flag.
shutdown_store == TRUE

\* EnginePool::shutdown, by any caller.
EnginePool_shutdown ==
    /\ phase = "ready"
    /\ shutdown' = shutdown_store
    /\ ret' = NoReturn
    /\ UNCHANGED << config, engine_rx, created, counters, engineVars, threads >>

\* A snapshot whose in_use is the created-count.
stats_created ==
    [ total        |-> size,
      available    |-> Len(engine_rx),
      in_use       |-> created,
      acquisitions |-> acquisitions,
      releases     |-> releases,
      timeouts     |-> timeouts,
      executions   |-> executions ]

\* EnginePool::stats: one snapshot of the channel length and the counters.
stats ==
    [ total        |-> size,
      available    |-> Len(engine_rx),
      in_use       |-> IF created > Len(engine_rx)
                       THEN created - Len(engine_rx) ELSE 0,
      acquisitions |-> acquisitions,
      releases     |-> releases,
      timeouts     |-> timeouts,
      executions   |-> executions ]

----------------------------------------------------------------------------
Next ==
    \/ EnginePool_new /\ UNCHANGED besidePool
    \/ EnginePool_shutdown /\ UNCHANGED besidePool
    \/ acquire /\ UNCHANGED besidePool
    \/ try_acquire /\ UNCHANGED besidePool
    \/ execute /\ UNCHANGED besidePool
    \/ \E r \in Locals : count_acquisition(r) /\ UNCHANGED besidePool
    \/ \E r \in Locals : acquire_recv(r) /\ UNCHANGED besidePool
    \/ \E r \in Locals : try_acquire_recv(r) /\ UNCHANGED besidePool
    \/ \E r \in Locals : lazy_load(r) /\ UNCHANGED besidePool
    \/ \E r \in Locals : lazy_cas(r) /\ UNCHANGED besidePool
    \/ \E r \in Locals : lazy_new(r) /\ UNCHANGED besidePool
    \/ \E r \in Locals : acquire_timeout(r) /\ UNCHANGED besidePool
    \/ \E r \in Locals : execute_run(r) /\ UNCHANGED besidePool
    \/ \E r \in Locals : execute_bytecode_run(r) /\ UNCHANGED besidePool
    \/ \E r \in Locals : PoolHandle_execute(r) /\ UNCHANGED besidePool
    \/ \E r \in Locals : PoolHandle_execute_bytecode(r) /\ UNCHANGED besidePool
    \/ \E r \in Locals : PoolHandle_cancel(r) /\ UNCHANGED besidePool
    \/ \E r \in Locals : drop(r) /\ UNCHANGED besidePool
    \/ \E r \in Locals : add_execution_time(r) /\ UNCHANGED besidePool
    \/ \E r \in Locals : drop_send(r) /\ UNCHANGED besidePool

Spec == Init /\ [][Next]_vars

----------------------------------------------------------------------------
\* Where the engines are.

\* The number of times engine e is in the available channel.
InChannel(e) == Cardinality({ i \in DOMAIN engine_rx : engine_rx[i] = e })

\* The number of handles that own engine e and whose drop has not begun.
LiveOwners(e) == Total({ r \in Locals : r.handle = e })

\* The number of handles in their drop that have taken engine e and not yet
\* sent it.
Dropping(e) == Total({ r \in Locals : r.engine = e })

\* The number of handles whose drop has not begun.
LiveTotal == Total({ r \in Locals : r.handle # NoEngine })

\* The number of handles in their drop, between the take and the send.
DropTotal == Total({ r \in Locals : r.engine # NoEngine })

\* A thread in local state r moves in the step.
Moved(r) == CopiesIn(r, threads') < CopiesIn(r, threads)

\* What Engine::execute and Engine::execute_bytecode return.
ExecResults == { "Value", "LimitViolation", "InvalidBytecode", "Cancelled" }

\* The calls through the pool that run a script.
PoolExecutes == { "execute", "execute_bytecode" }

\* The calls through a handle that run a script.
HandleExecutes == { "PoolHandle_execute", "PoolHandle_execute_bytecode" }

\* The number of handles that exist: live, or in their drop.
Handles ==
    Total({ r \in Locals : r.handle # NoEngine \/ r.engine # NoEngine })

----------------------------------------------------------------------------
\* C1: in every reachable state each constructed PooledEngine is in exactly
\* one place: once in the available channel, or owned by exactly one
\* PoolHandle (a handle owns its engine until the try_send of its drop; between
\* the take and the send the engine is in the drop's local).  So no engine is
\* owned by two handles, and none is in the channel while a handle owns it.
C1_ExclusiveOwnership ==
    /\ \A e \in engines : InChannel(e) + LiveOwners(e) + Dropping(e) = 1
    /\ \A e \in Range(engine_rx) : e \in engines
    /\ \A r \in Locals :
         /\ r.handle # NoEngine => r.handle \in engines
         /\ r.engine # NoEngine => r.engine \in engines

\* One engine is back in the channel after a drop while a live handle owns
\* another.
C1_Witness ==
    /\ releases >= 1
    /\ \E e1, e2 \in engines :
         /\ e1 # e2
         /\ InChannel(e1) = 1
         /\ LiveOwners(e2) = 1

\* C2: the number of PooledEngines ever constructed and the created-count
\* never exceed the capacity, under any interleaving of acquire and
\* try_acquire, on lazy and eager pools.
C2_AtMostN ==
    /\ created <= size
    /\ Cardinality(engines) <= size
    /\ Cardinality(engines) <= created

\* A lazy pool has grown to its capacity by one thread's compare-and-swap
\* while a racing thread still holds the count it loaded before.
C2_Witness ==
    /\ lazy_init
    /\ created = size
    /\ Cardinality(engines) < size
    /\ \E r \in Locals : r.pc = "cas" /\ r.created < created

\* C3: the handles that exist plus the engines in the channel never exceed
\* the capacity, so the try_send of a drop always finds room: no returned
\* engine is ever discarded.
C3_SendFindsRoom ==
    /\ Handles + Len(engine_rx) <= size
    /\ discarded = {}
    /\ \A r \in Locals : r.pc = "drop_send" => has_room

\* A drop has filled the channel of a pool of two to its capacity.
C3_Witness ==
    /\ size = 2
    /\ releases >= 1
    /\ Len(engine_rx) = size
    /\ Handles = 0

----------------------------------------------------------------------------
C4_Step ==
    \* a handle stops being live only by its drop, which counts one release
    \* and takes the engine
    /\ LiveTotal' < LiveTotal =>
         /\ LiveTotal' = LiveTotal - 1
         /\ DropTotal' = DropTotal + 1
         /\ releases' = releases + 1
    \* the release counter moves only so
    /\ releases' # releases =>
         /\ releases' = releases + 1
         /\ LiveTotal' = LiveTotal - 1
    \* a drop ends only by sending its engine to the channel, once
    /\ DropTotal' < DropTotal =>
         /\ DropTotal' = DropTotal - 1
         /\ releases' = releases
         /\ \E r \in Locals :
              /\ r.engine # NoEngine
              /\ Moved(r)
              /\ engine_rx' = Append(engine_rx, r.engine)
    \* execute and execute_bytecode return what the engine returned, value or
    \* error, only in the step that sends the engine back
    /\ ret'.call \in PoolExecutes /\ ret'.value \in ExecResults =>
         /\ DropTotal' = DropTotal - 1
         /\ Len(engine_rx') = Len(engine_rx) + 1

\* C4: every handle returns its engine exactly once on every exit path: its
\* drop counts exactly one release and sends the engine to the channel once,
\* and EnginePool::execute / execute_bytecode return only after the acquired
\* engine is back in the channel, whether the execution gave a value or an
\* error.
C4_ReleaseOnce == [][C4_Step]_vars

\* EnginePool::execute has returned an error of the execution and the engine
\* it had acquired is back: the eager pool is full again, one release counted.
C4_Witness ==
    /\ ret = Return("execute", "LimitViolation")
    /\ ~lazy_init
    /\ releases = 1
    /\ executions = 1
    /\ Len(engine_rx) = size
    /\ Handles = 0

C5_Step ==
    \* one-way
    /\ shutdown => shutdown'
    \* no call passes the shutdown check any more
    /\ shutdown => Counting' <= Counting
    \* and a call made now returns PoolShutdown and touches nothing
    /\ shutdown /\ (acquire \/ try_acquire \/ execute) =>
         /\ ret'.value = "PoolShutdown"
         /\ UNCHANGED << threads, engine_rx, created, acquisitions >>

\* C5: after shutdown() every acquire() and try_acquire() call fails with
\* PoolShutdown, however many engines are in the channel, and nothing makes
\* the pool accept acquisitions again.
C5_ShutdownRejects == [][C5_Step]_vars

\* An acquire on a shut-down pool has just been refused although both engines
\* of the pool are available.
C5_Witness ==
    /\ shutdown
    /\ size = 2
    /\ Len(engine_rx) = size
    /\ ret = Return("acquire", "PoolShutdown")

C6_Step ==
    \* shutdown itself touches no handle, engine or counter
    /\ shutdown' # shutdown =>
         UNCHANGED << threads, engine_rx, created, counters, engineVars >>
    \* after it, a handle still executes: the engine's result, not PoolShutdown
    /\ shutdown /\ ret'.call \in HandleExecutes => ret'.value \in ExecResults
    \* and its drop still counts the release and sends the engine back
    /\ shutdown /\ LiveTotal' < LiveTotal =>
         /\ releases' = releases + 1
         /\ DropTotal' = DropTotal + 1
    /\ shutdown /\ DropTotal' < DropTotal =>
         \E r \in Locals :
           /\ r.engine # NoEngine
           /\ Moved(r)
           /\ engine_rx' = Append(engine_rx, r.engine)

C6_State ==
    shutdown =>
      \A r \in Locals :
        /\ Holding(r) => ENABLED PoolHandle_execute(r) /\ ENABLED drop(r)
        /\ r.pc = "drop_send" => ENABLED drop_send(r)

\* C6: shutdown() does not affect handles that are checked out: such a handle
\* can still execute and be dropped after shutdown, and its drop counts the
\* release and sends the engine back to the channel as before shutdown.
C6_ShutdownSparesHandles == [] C6_State /\ [][C6_Step]_vars

\* The pool is shut down (a call has just been refused) while the drop of a
\* handle acquired before is about to send its engine.
C6_Witness ==
    /\ shutdown
    /\ ret.value = "PoolShutdown"
    /\ \E r \in Locals : r.pc = "drop_send"

C7_State ==
    ~lazy_init /\ phase = "ready" =>
      \* an eager pool never creates an engine after new
      /\ created = size
      /\ Cardinality(engines) = size
      /\ \A r \in Locals : r.pc \notin { "load", "cas", "new" }
      \* all N acquired, none dropped
      /\ LiveTotal = size /\ DropTotal = 0 => stats.in_use = size

C7_Step ==
    \* an acquire that fails past the shutdown check fails with PoolTimeout,
    \* counts one timeout and creates no engine
    /\ ~lazy_init /\ ret'.call = "acquire"
         /\ ret'.value \notin { "Ok", "PoolShutdown" } =>
           /\ ret'.value = "PoolTimeout"
           /\ timeouts' = timeouts + 1
           /\ UNCHANGED << created, engines, NEXT_ID, engine_rx >>
    \* with every engine checked out, the expiry of the wait leads there
    /\ \A r \in Locals :
         ~lazy_init /\ r.op = "acquire" /\ r.pc = "recv" /\ Moved(r)
           /\ Len(engine_rx) = 0 =>
             /\ ret' = NoReturn
             /\ CopiesIn([ r EXCEPT !.pc = "timeout" ], threads') >= 1
             /\ UNCHANGED << created, engines, timeouts >>

\* C7: on an eager pool of capacity N, after N successful acquires with no
\* handle dropped, stats().in_use = N; a further acquire, once its wait has
\* expired, fails with PoolTimeout, adds one to the timeouts counter and
\* creates no engine.
C7_ExhaustedTimesOut == [] C7_State /\ [][C7_Step]_vars

\* With every engine of an eager pool checked out, an acquire has just failed
\* with PoolTimeout, the first timeout counted.
C7_Witness ==
    /\ ~lazy_init
    /\ LiveTotal = size
    /\ stats.in_use = size
    /\ timeouts = 1
    /\ ret = Return("acquire", "PoolTimeout")

C8_State ==
    \* try_acquire is never in the tail that counts a timeout
    \A r \in Locals : r.op = "try_acquire" => r.pc # "timeout"

C8_Step ==
    \* try_acquire never returns PoolTimeout and never counts a timeout
    /\ ret'.call = "try_acquire" =>
         /\ ret'.value \in { "Ok", "PoolShutdown", "PoolExhausted", "Io" }
         /\ timeouts' = timeouts
    \* PoolExhausted carries the capacity
    /\ ret'.value = "PoolExhausted" =>
         /\ ret'.call = "try_acquire"
         /\ ret'.count = size
    \* on an eager pool the receive decides at once: PoolExhausted with the
    \* channel empty, the head of the channel otherwise
    /\ \A r \in Locals :
         ~lazy_init /\ r.op = "try_acquire" /\ r.pc = "recv" /\ Moved(r) =>
           IF Len(engine_rx) = 0
           THEN /\ ret' = Return("try_acquire", "PoolExhausted")
                /\ UNCHANGED << created, engines, timeouts >>
           ELSE /\ ret' = Return("try_acquire", "Ok")
                /\ CopiesIn(Holder(Head(engine_rx)), threads')
                     = CopiesIn(Holder(Head(engine_rx)), threads) + 1

\* C8: try_acquire() never waits: on an eager pool whose N engines are all
\* checked out it fails at once with PoolExhausted{count: N}, never with
\* PoolTimeout and without counting a timeout; with an engine in the channel
\* (after any one handle is dropped) it succeeds.
C8_TryAcquireImmediate == [] C8_State /\ [][C8_Step]_vars

\* With every engine of an eager pool checked out, a try_acquire has just
\* failed with PoolExhausted and no timeout has ever been counted.
C8_Witness ==
    /\ ~lazy_init
    /\ LiveTotal = size
    /\ Len(engine_rx) = 0
    /\ timeouts = 0
    /\ ret = Return("try_acquire", "PoolExhausted")
    /\ ret.count = size

C9_Step ==
    \* the send of a drop: available + 1, in_use - 1
    /\ DropTotal' < DropTotal =>
         /\ stats'.available = stats.available + 1
         /\ stats'.in_use = stats.in_use - 1
    \* the steps of a drop before the send change neither
    /\ LiveTotal' < LiveTotal \/ executions' # executions =>
         /\ stats'.available = stats.available
         /\ stats'.in_use = stats.in_use
    \* a successful acquire on an eager pool: in_use + 1
    /\ ~lazy_init /\ LiveTotal' > LiveTotal =>
         /\ stats'.in_use = stats.in_use + 1
         /\ stats'.available = stats.available - 1

\* C9: dropping a live handle, with no other operation in between, increases
\* stats().available by exactly 1 and decreases stats().in_use by exactly 1;
\* each successful acquire on an eager pool increases in_use by 1.
C9_DropMovesStats == [][C9_Step]_vars

\* One of the two handles of an eager pool of two has been dropped.
C9_Witness ==
    /\ ~lazy_init
    /\ size = 2
    /\ releases = 1
    /\ executions = 1
    /\ LiveTotal = 1
    /\ DropTotal = 0
    /\ stats.available = 1
    /\ stats.in_use = 1

\* C10: EnginePool::new with lazy_init false creates exactly N engines, all
\* available (available = N, in_use = 0, created = N); with lazy_init true it
\* creates none (available = 0, created = 0), and the first successful
\* try_acquire on it creates one engine and sets created to 1.
C10_NewFillsOrDefers ==
    /\ phase = "ready" /\ acquisitions = 0 /\ threads = EmptyBag =>
         IF lazy_init
         THEN /\ stats.available = 0
              /\ created = 0
              /\ engines = {}
         ELSE /\ stats.available = size
              /\ stats.in_use = 0
              /\ created = size
              /\ Cardinality(engines) = size
              /\ Range(engine_rx) = engines
    /\ lazy_init /\ acquisitions = 1 /\ ret = Return("try_acquire", "Ok") =>
         /\ created = 1
         /\ Cardinality(engines) = 1
         /\ stats.available = 0
         /\ stats.in_use = 1

\* The first try_acquire on a lazy pool of two has just returned a handle.
C10_Witness ==
    /\ lazy_init
    /\ size = 2
    /\ acquisitions = 1
    /\ created = 1
    /\ ret = Return("try_acquire", "Ok")

----------------------------------------------------------------------------
\* The pool while it is not shut down, its waits long enough and its clients
\* well-behaved: every thread that can take its next step eventually takes
\* it, and a thread that holds a handle eventually drops it.

\* acquire's recv_timeout where the timeout does not expire before a
\* checked-out handle is back: the wait ends with an engine, or, when no
\* handle is out that could come back, with the expiry.
recv_in_time(r) ==
    /\ Len(engine_rx) > 0 \/ Handles = 0
    /\ acquire_recv(r)

\* EnginePool::execute past acquire, on a script that runs within its limits
\* (as the "10", "20", ... of test_pool_concurrent_execution do).
execute_run_within_limits(r) ==
    /\ execute_run(r)
    /\ \A q \in BagToSet(threads') : q.result # "LimitViolation"

LiveNext ==
    \/ EnginePool_new /\ UNCHANGED besidePool
    \/ acquire /\ UNCHANGED besidePool
    \/ execute /\ UNCHANGED besidePool
    \/ \E r \in Locals : count_acquisition(r) /\ UNCHANGED besidePool
    \/ \E r \in Locals : recv_in_time(r) /\ UNCHANGED besidePool
    \/ \E r \in Locals : lazy_load(r) /\ UNCHANGED besidePool
    \/ \E r \in Locals : lazy_cas(r) /\ UNCHANGED besidePool
    \/ \E r \in Locals : lazy_new(r) /\ UNCHANGED besidePool
    \/ \E r \in Locals : acquire_timeout(r) /\ UNCHANGED besidePool
    \/ \E r \in Locals : execute_run_within_limits(r) /\ UNCHANGED besidePool
    \/ \E r \in Locals : drop(r) /\ UNCHANGED besidePool
    \/ \E r \in Locals : add_execution_time(r) /\ UNCHANGED besidePool
    \/ \E r \in Locals : drop_send(r) /\ UNCHANGED besidePool

\* The scheduler runs every thread that is in a call, and the channel wakes
\* a waiting receiver when an engine arrives; the holder of a handle drops it.
LiveFairness ==
    /\ WF_vars(\E r \in Locals : count_acquisition(r) /\ UNCHANGED besidePool)
    /\ WF_vars(\E r \in Locals : recv_in_time(r) /\ UNCHANGED besidePool)
    /\ WF_vars(\E r \in Locals : lazy_load(r) /\ UNCHANGED besidePool)
    /\ WF_vars(\E r \in Locals : lazy_cas(r) /\ UNCHANGED besidePool)
    /\ WF_vars(\E r \in Locals : lazy_new(r) /\ UNCHANGED besidePool)
    /\ WF_vars(\E r \in Locals : acquire_timeout(r) /\ UNCHANGED besidePool)
    /\ WF_vars(\E r \in Locals :
                 execute_run_within_limits(r) /\ UNCHANGED besidePool)
    /\ WF_vars(\E r \in Locals : drop(r) /\ UNCHANGED besidePool)
    /\ WF_vars(\E r \in Locals : add_execution_time(r) /\ UNCHANGED besidePool)
    /\ WF_vars(\E r \in Locals : drop_send(r) /\ UNCHANGED besidePool)

LiveSpec == Init /\ [][LiveNext]_vars /\ LiveFairness

\* The number of threads waiting in the recv_timeout of acquire.
Blocked == Total({ r \in Locals : r.pc = "recv" })

\* No thread is in a call and no handle is out.
Quiet == threads = EmptyBag

C11_Safe ==
    \* on an eager pool no call fails, no wait expires
    /\ ~lazy_init =>
         /\ timeouts = 0
         /\ ret.call \in { "acquire" } => ret.value = "Ok"
         /\ ret.call \in { "execute" } => ret.value = "Value"
    \* a wait ends in the expiry only when no handle was out to wait for
    /\ \A r \in Locals : r.pc \in { "load", "cas", "new", "timeout" } => lazy_init
    \* when all is done, every acquisition was released and counted as an
    \* execution: K execute calls leave executions = K
    /\ ~lazy_init /\ phase = "ready" /\ Quiet =>
         /\ releases = acquisitions
         /\ executions = acquisitions
         /\ Len(engine_rx) = size

\* C11: on a pool that is not shut down, where every checked-out handle is
\* eventually dropped and no wait expires before that, every acquire that
\* waits eventually gets an engine (no deadlock, no lost hand-off); K
\* concurrent EnginePool::execute calls on an eager pool of N < K engines
\* all return their value, and executions = K when they are done.
C11_BlockedAcquireReturns ==
    /\ [] C11_Safe
    /\ (Blocked > 0) ~> (Blocked = 0)
    /\ <>[] Quiet

\* Two execute calls on an eager pool of one engine: one holds the engine,
\* the other waits on the empty channel.
C11_Witness ==
    /\ ~lazy_init
    /\ size = 1
    /\ Len(engine_rx) = 0
    /\ \E r, q \in Locals :
         /\ r.op = "execute" /\ r.pc = "recv"
         /\ q.op = "execute" /\ q.handle # NoEngine

----------------------------------------------------------------------------
\* Limits and LimitTracker (src/src/limits.rs).

\* The counters are u64 and usize in the code; the model gives both this
\* many bits.
CounterBits == 7
\* The configured ceilings the model tries: 0..MaxCeiling, and the largest
\* value of the integer type.
MaxCeiling == 2

\* One more than the largest value a counter holds.
Modulus == 2 ^ CounterBits

\* Option<T>.
None == [ some |-> FALSE, value |-> 0 ]
Some(v) == [ some |-> TRUE, value |-> v ]

\* The ceilings of Limits that the tracker and the check_* methods read.
LimitFields ==
    { "timeout", "memory_bytes", "max_instructions", "max_stack_depth",
      "max_output_bytes", "max_fs_ops", "max_net_ops" }

\* Limits::unlimited.
Limits_unlimited == [ f \in LimitFields |-> None ]

\* Limits with every ceiling set to L through the with_* builders.
Limits_with(L) == [ f \in LimitFields |-> Some(L) ]

\* Result<(), LimitViolation>.
Ok == [ kind |-> "Ok" ]
NoResult == [ kind |-> "none" ]
Panic == [ kind |-> "panic" ]
Exceeded(kind, limit, actual) ==
    [ kind |-> kind, limit |-> limit, actual |-> actual ]
\* FsOpsExceeded and NetOpsExceeded have the one field `limit`.
OpsExceeded(kind, limit) == [ kind |-> kind, limit |-> limit ]

\* A comparison that rejects the ceiling itself.
AtLeast(v, limit) == v >= limit

\* `if elapsed > limit`, `if used > limit`, `if count > limit`, ...
Exceeds(v, limit) == v > limit

\* Limits::check_time, check_memory, check_instructions, check_stack_depth:
\* field is the ceiling read, kind the LimitViolation returned.
Limits_check(l, field, kind, v) ==
    IF l[field].some /\ Exceeds(v, l[field].value)
    THEN Exceeded(kind, l[field].value, v)
    ELSE Ok

Limits_check_time(l, elapsed) ==
    Limits_check(l, "timeout", "TimeExceeded", elapsed)
Limits_check_memory(l, used) ==
    Limits_check(l, "memory_bytes", "MemoryExceeded", used)
Limits_check_instructions(l, count) ==
    Limits_check(l, "max_instructions", "InstructionsExceeded", count)
Limits_check_stack_depth(l, depth) ==
    Limits_check(l, "max_stack_depth", "StackDepthExceeded", depth)

\* LimitTracker::new (and what reset stores).
LimitTracker_new ==
    [ instructions_executed |-> 0, memory_used |-> 0,
      current_stack_depth |-> 0, output_bytes |-> 0, fs_ops |-> 0,
      net_ops |-> 0 ]

\* `a += b` leaves the integer type.
Overflows(a, b) == a + b >= Modulus

\* `a += b` in a build that does not check overflow.
WrappingAdd(a, b) == (a + b) % Modulus

\* `a.saturating_sub(b)`.
SaturatingSub(a, b) == IF a < b THEN 0 ELSE a - b

\* LimitTracker::record_instructions(count) on tracker t with limits l, in a
\* build that does not panic on the addition: the tracker and the result.
record_instructions(t, l, count) ==
    LET n == WrappingAdd(t.instructions_executed, count)
    IN [ tracker |-> [ t EXCEPT !.instructions_executed = n ],
         result  |-> Limits_check_instructions(l, n) ]

\* LimitTracker::record_memory(bytes).
record_memory(t, l, bytes) ==
    [ tracker |-> [ t EXCEPT !.memory_used = bytes ],
      result  |-> Limits_check_memory(l, bytes) ]

\* LimitTracker::push_stack.
push_stack(t, l) ==
    LET n == WrappingAdd(t.current_stack_depth, 1)
    IN [ tracker |-> [ t EXCEPT !.current_stack_depth = n ],
         result  |-> Limits_check_stack_depth(l, n) ]

\* LimitTracker::pop_stack.
pop_stack(t) ==
    [ t EXCEPT !.current_stack_depth = SaturatingSub(t.current_stack_depth, 1) ]

\* LimitTracker::record_output(bytes).
record_output(t, l, bytes) ==
    LET n == WrappingAdd(t.output_bytes, bytes)
    IN [ tracker |-> [ t EXCEPT !.output_bytes = n ],
         result  |-> IF l.max_output_bytes.some
                        /\ Exceeds(n, l.max_output_bytes.value)
                     THEN Exceeded("OutputSizeExceeded",
                                   l.max_output_bytes.value, n)
                     ELSE Ok ]

\* LimitTracker::record_fs_op.
record_fs_op(t, l) ==
    LET n == WrappingAdd(t.fs_ops, 1)
    IN [ tracker |-> [ t EXCEPT !.fs_ops = n ],
         result  |-> IF l.max_fs_ops.some /\ Exceeds(n, l.max_fs_ops.value)
                     THEN OpsExceeded("FsOpsExceeded", l.max_fs_ops.value)
                     ELSE Ok ]

\* LimitTracker::record_net_op.
record_net_op(t, l) ==
    LET n == WrappingAdd(t.net_ops, 1)
    IN [ tracker |-> [ t EXCEPT !.net_ops = n ],
         result  |-> IF l.max_net_ops.some /\ Exceeds(n, l.max_net_ops.value)
                     THEN OpsExceeded("NetOpsExceeded", l.max_net_ops.value)
                     ELSE Ok ]

----------------------------------------------------------------------------
\* A LimitTracker and the calls a client makes on it.

\* The amounts the client records: nothing, one, and the largest value of
\* the integer type.
Amounts == { 0, 1, Modulus - 1 }

\* The values the client passes to the check_* methods and the elapsed time
\* check_timeout reads.
CheckValues == 0..(MaxCeiling + 1)

\* The Limits the tracker is built with.
LimitPresets ==
    { Limits_unlimited, Limits_with(Modulus - 1) }
        \cup { Limits_with(L) : L \in 0..MaxCeiling }

besideTracker ==
    << poolVars, contextVars, sandboxVars, capVars, reuseVars, asyncVars >>

\* Between two resets the client exercises one counter: the others are 0.
OnlyCounter(c) ==
    \A f \in DOMAIN limit_tracker : f # c => limit_tracker[f] = 0

\* The call `name` with argument arg returned (or panicked with) result.
Returned(name, arg, result) ==
    [ call |-> name, arg |-> arg, result |-> result ]

LimitInit ==
    /\ NoPool
    /\ NoContext
    /\ NoSandbox
    /\ NoCaps
    /\ NoCheckout
    /\ limits \in LimitPresets
    /\ limit_tracker = LimitTracker_new
    /\ overflow_checks \in BOOLEAN
    /\ ret = Returned("new", 0, NoResult)

\* A call that adds `add` to the counter c: in a build with overflow checks
\* the addition panics when it leaves the type and stores nothing; otherwise
\* the call stores and returns what `rec` says.
accumulate(name, c, add, rec) ==
    /\ OnlyCounter(c)
    /\ IF overflow_checks /\ Overflows(limit_tracker[c], add)
       THEN /\ ret' = Returned(name, add, Panic)
            /\ UNCHANGED limit_tracker
       ELSE /\ ret' = Returned(name, add, rec.result)
            /\ limit_tracker' = rec.tracker
    /\ UNCHANGED << limits, overflow_checks, besideTracker >>

LimitTracker_record_instructions ==
    \E count \in Amounts :
      accumulate("record_instructions", "instructions_executed", count,
                 record_instructions(limit_tracker, limits, count))

LimitTracker_record_memory ==
    \E bytes \in Amounts :
      /\ OnlyCounter("memory_used")
      /\ limit_tracker' = record_memory(limit_tracker, limits, bytes).tracker
      /\ ret' = Returned("record_memory", bytes,
                         record_memory(limit_tracker, limits, bytes).result)
      /\ UNCHANGED << limits, overflow_checks, besideTracker >>

LimitTracker_push_stack ==
    accumulate("push_stack", "current_stack_depth", 1,
               push_stack(limit_tracker, limits))

LimitTracker_pop_stack ==
    /\ OnlyCounter("current_stack_depth")
    /\ limit_tracker' = pop_stack(limit_tracker)
    /\ ret' = Returned("pop_stack", 0, NoResult)
    /\ UNCHANGED << limits, overflow_checks, besideTracker >>

LimitTracker_record_output ==
    \E bytes \in Amounts :
      accumulate("record_output", "output_bytes", bytes,
                 record_output(limit_tracker, limits, bytes))

LimitTracker_record_fs_op ==
    accumulate("record_fs_op", "fs_ops", 1,
               record_fs_op(limit_tracker, limits))

LimitTracker_record_net_op ==
    accumulate("record_net_op", "net_ops", 1,
               record_net_op(limit_tracker, limits))

\* LimitTracker::reset.
LimitTracker_reset ==
    /\ limit_tracker' = LimitTracker_new
    /\ ret' = Returned("reset", 0, NoResult)
    /\ UNCHANGED << limits, overflow_checks, besideTracker >>

\* LimitTracker::check_timeout: `elapsed` is start_time.elapsed().
LimitTracker_check_timeout ==
    \E elapsed \in CheckValues :
      /\ ret' = Returned("check_timeout", elapsed,
                         Limits_check_time(limits, elapsed))
      /\ UNCHANGED << trackerVars, besideTracker >>

\* The check_* methods of the tracker's Limits, called by the client.
check_memory ==
    \E used \in CheckValues :
      /\ ret' = Returned("check_memory", used,
                         Limits_check_memory(limits, used))
      /\ UNCHANGED << trackerVars, besideTracker >>

check_instructions ==
    \E count \in CheckValues :
      /\ ret' = Returned("check_instructions", count,
                         Limits_check_instructions(limits, count))
      /\ UNCHANGED << trackerVars, besideTracker >>

check_stack_depth ==
    \E depth \in CheckValues :
      /\ ret' = Returned("check_stack_depth", depth,
                         Limits_check_stack_depth(limits, depth))
      /\ UNCHANGED << trackerVars, besideTracker >>

LimitNext ==
    \/ LimitTracker_record_instructions
    \/ LimitTracker_record_memory
    \/ LimitTracker_push_stack
    \/ LimitTracker_pop_stack
    \/ LimitTracker_record_output
    \/ LimitTracker_record_fs_op
    \/ LimitTracker_record_net_op
    \/ LimitTracker_reset
    \/ LimitTracker_check_timeout
    \/ check_memory
    \/ check_instructions
    \/ check_stack_depth

LimitSpec == LimitInit /\ [][LimitNext]_vars

----------------------------------------------------------------------------
\* The counters of the tracker: the ceiling each is held against, the call
\* that records it and the violation the call returns.
Tracked ==
    { [ ceiling |-> "max_instructions", counter |-> "instructions_executed",
        call |-> "record_instructions", kind |-> "InstructionsExceeded" ],
      [ ceiling |-> "memory_bytes", counter |-> "memory_used",
        call |-> "record_memory", kind |-> "MemoryExceeded" ],
      [ ceiling |-> "max_stack_depth", counter |-> "current_stack_depth",
        call |-> "push_stack", kind |-> "StackDepthExceeded" ],
      [ ceiling |-> "max_output_bytes", counter |-> "output_bytes",
        call |-> "record_output", kind |-> "OutputSizeExceeded" ],
      [ ceiling |-> "max_fs_ops", counter |-> "fs_ops",
        call |-> "record_fs_op", kind |-> "FsOpsExceeded" ],
      [ ceiling |-> "max_net_ops", counter |-> "net_ops",
        call |-> "record_net_op", kind |-> "NetOpsExceeded" ] }

\* Those that add to their counter.
Accumulating ==
    { x \in Tracked : x.counter \in { "instructions_executed", "output_bytes",
                                      "fs_ops", "net_ops" } }

\* The check methods: the ceiling each reads and the violation it returns.
Checks ==
    { [ ceiling |-> "timeout", call |-> "check_timeout",
        kind |-> "TimeExceeded" ],
      [ ceiling |-> "memory_bytes", call |-> "check_memory",
        kind |-> "MemoryExceeded" ],
      [ ceiling |-> "max_instructions", call |-> "check_instructions",
        kind |-> "InstructionsExceeded" ],
      [ ceiling |-> "max_stack_depth", call |-> "check_stack_depth",
        kind |-> "StackDepthExceeded" ] }

\* The counter of x is over its ceiling.
Crossed(x) ==
    /\ limits[x.ceiling].some
    /\ limit_tracker[x.counter] > limits[x.ceiling].value

C14_Step ==
    LET x == CHOOSE y \in Tracked : y.counter = "instructions_executed"
    IN /\ Crossed(x) /\ ret'.call = x.call =>
            ret'.result.kind = "InstructionsExceeded"
       /\ ret'.call # "reset" =>
            limit_tracker'.instructions_executed
                >= limit_tracker.instructions_executed

\* C14: for a LimitTracker with an instruction ceiling L, once
\* record_instructions has made the count exceed L, every later
\* record_instructions call (any count, 0 too) before a reset returns
\* InstructionsExceeded, and the count never decreases.
C14_StaysExceeded == [][C14_Step]_vars

C15_Step ==
    \A x \in Tracked :
      Crossed(x) /\ ret'.call # "reset" =>
        /\ Crossed(x)'
        /\ ret'.call = x.call => ret'.result.kind = x.kind

\* C15: for every counter of a LimitTracker (instructions, memory, stack
\* depth, output bytes, filesystem ops, network ops), once a record or push
\* call has put it over its ceiling, every later record or push call on it
\* reports a violation, and nothing but reset brings it back under.
C15_StaysCrossed == [][C15_Step]_vars

C16_Step ==
    \A x \in Accumulating :
      ret'.call = x.call =>
        /\ limit_tracker'[x.counter] = limit_tracker[x.counter] + ret'.arg
        /\ limit_tracker'[x.counter] >= limit_tracker[x.counter]

\* C16: between two resets the accumulating counters (instructions, output
\* bytes, fs ops, net ops) only move forward: after a record call the stored
\* counter is the counter before plus the recorded amount, never smaller,
\* also when the sum reaches the width of the integer type.
C16_OnlyForward == [][C16_Step]_vars

\* The value the latest call held against the ceiling: its argument for a
\* check, the counter it stored for a record or push.
Compared(x) ==
    IF x \in Checks THEN ret.arg ELSE limit_tracker[x.counter]

HasActual(kind) == kind \notin { "FsOpsExceeded", "NetOpsExceeded" }

C17_State ==
    \A x \in Checks \cup Tracked :
      ret.call = x.call /\ ret.result.kind # "panic" =>
        LET L == limits[x.ceiling]
            v == Compared(x)
        IN /\ ret.result.kind # "Ok" <=> L.some /\ v > L.value
           /\ ret.result.kind # "Ok" =>
                /\ ret.result.kind = x.kind
                /\ ret.result.limit = L.value
                /\ IF HasActual(x.kind)
                   THEN ret.result.actual = v
                   ELSE DOMAIN ret.result = { "kind", "limit" }

C17_Step ==
    LET k == limits.max_fs_ops
    IN ret'.call = "record_fs_op" /\ k.some /\ k.value < Modulus - 1
         /\ limit_tracker.fs_ops <= k.value =>
           /\ limit_tracker'.fs_ops = limit_tracker.fs_ops + 1
           /\ IF limit_tracker'.fs_ops <= k.value
              THEN ret'.result = Ok
              ELSE ret'.result = OpsExceeded("FsOpsExceeded", k.value)

----------------------------------------------------------------------------
\* One Engine and its ExecutionContext (src/src/engine.rs): a driver thread
\* that calls execute and execute_bytecode, one atomic operation of the code
\* per step, while other threads call cancel and set_custom.

\* The keys other threads and host functions put in the scratch map.
Keys == { "key" }

EngineExecutes == { "execute", "execute_bytecode" }

\* EngineConfig.limits: an execution timeout and the instruction ceiling.
EngineLimits ==
    [ Limits_unlimited EXCEPT !.timeout = Some(MaxCeiling),
                              !.max_instructions = Some(max_instructions) ]

\* start_time.elapsed() as check_timeout reads it for the input.
Elapsed(input) == IF input.late THEN MaxCeiling + 1 ELSE 0

\* ExecutionContext::new.
ExecutionContext_new ==
    [ limit_tracker |-> LimitTracker_new, custom |-> {}, cancelled |-> FALSE ]

\* The driver is in no call.
Idle == [ pc |-> "idle", op |-> "none", input |-> [ len |-> 0 ],
          used |-> FALSE ]

\* History: the context holds counts or scratch entries of earlier calls.
Used == context.limit_tracker # LimitTracker_new \/ context.custom # {}

\* Engine::execute_bytecode: the buffer fails the header check.
BadHeader(bc) == bc.len < MinBytecodeLen \/ ~bc.magic

besideContext ==
    << poolVars, trackerVars, sandboxVars, capVars, reuseVars, asyncVars >>

EngineInit ==
    /\ NoPool
    /\ NoTracker
    /\ NoSandbox
    /\ NoCaps
    /\ NoCheckout
    /\ context = ExecutionContext_new
    /\ driver = Idle
    /\ cancel_pending = FALSE
    /\ ret = Returned("new", 0, NoResult)

\* An entry that resets the context before it looks at the flag.
Engine_enter_reset_first(op, input) ==
    /\ driver.pc = "idle"
    /\ context' = ExecutionContext_new
    /\ driver' = [ pc |-> "run", op |-> op, input |-> input, used |-> Used ]
    /\ ret' = Returned("enter", input.len, NoResult)
    /\ UNCHANGED cancel_pending

\* An entry that checks the header of a bytecode before it resets.
Engine_enter_validate_first(op, input) ==
    /\ driver.pc = "idle"
    /\ IF context.cancelled
       THEN /\ ret' = Returned(op, input.len, [ kind |-> "Cancelled" ])
            /\ cancel_pending' = FALSE
            /\ UNCHANGED << context, driver >>
       ELSE IF op = "execute_bytecode" /\ BadHeader(input)
       THEN /\ ret' = Returned(op, input.len, [ kind |-> "InvalidBytecode" ])
            /\ UNCHANGED << context, driver, cancel_pending >>
       ELSE /\ driver' = [ pc |-> "reset_tracker", op |-> op,
                           input |-> input, used |-> Used ]
            /\ ret' = Returned("enter", input.len, NoResult)
            /\ UNCHANGED << context, cancel_pending >>

\* Engine::execute and Engine::execute_bytecode, the entry: the load of
\* is_cancelled and the early return of Cancelled.
Engine_enter(op, input) ==
    /\ driver.pc = "idle"
    /\ IF context.cancelled
       THEN /\ ret' = Returned(op, input.len, [ kind |-> "Cancelled" ])
            /\ cancel_pending' = FALSE
            /\ UNCHANGED << context, driver >>
       ELSE /\ driver' = [ pc |-> "reset_tracker", op |-> op,
                           input |-> input, used |-> Used ]
            /\ ret' = Returned("enter", input.len, NoResult)
            /\ UNCHANGED << context, cancel_pending >>

Engine_call_execute ==
    \E src \in Sources :
      Engine_enter("execute", src) /\ UNCHANGED besideContext

Engine_call_execute_bytecode ==
    \E bc \in Bytecodes :
      Engine_enter("execute_bytecode", bc) /\ UNCHANGED besideContext

\* A reset that keeps the tracker of the earlier executions.
reset_tracker_kept ==
    /\ driver.pc = "reset_tracker"
    /\ driver' = [ driver EXCEPT !.pc = "reset_cancelled" ]
    /\ ret' = Returned("reset_tracker", 0, NoResult)
    /\ UNCHANGED << context, cancel_pending, besideContext >>

\* ExecutionContext::reset, first statement: the tracker is replaced.
reset_tracker ==
    /\ driver.pc = "reset_tracker"
    /\ context' = [ context EXCEPT !.limit_tracker = LimitTracker_new ]
    /\ driver' = [ driver EXCEPT !.pc = "reset_cancelled" ]
    /\ ret' = Returned("reset_tracker", 0, NoResult)
    /\ UNCHANGED << cancel_pending, besideContext >>

\* ExecutionContext::reset, second statement: cancelled.store(false).
reset_cancelled ==
    /\ driver.pc = "reset_cancelled"
    /\ context' = [ context EXCEPT !.cancelled = FALSE ]
    /\ driver' = [ driver EXCEPT !.pc = "reset_custom" ]
    /\ ret' = Returned("reset_cancelled", 0, NoResult)
    /\ UNCHANGED << cancel_pending, besideContext >>

\* ExecutionContext::reset, third statement: custom.lock().clear().
reset_custom ==
    /\ driver.pc = "reset_custom"
    /\ context' = [ context EXCEPT !.custom = {} ]
    /\ driver' = [ driver EXCEPT !.pc = "run" ]
    /\ ret' = Returned("reset_custom", 0, NoResult)
    /\ UNCHANGED << cancel_pending, besideContext >>

\* check_timeout, then record_instructions(n): the tracker and the result
\* of the execution.
simulate(t, input, n) ==
    LET timed == Limits_check_time(EngineLimits, Elapsed(input))
        rec == record_instructions(t, EngineLimits, n)
    IN IF timed # Ok THEN [ tracker |-> t, result |-> timed ]
       ELSE IF rec.result # Ok THEN rec
       ELSE [ tracker |-> rec.tracker, result |-> [ kind |-> "Value" ] ]

\* What follows the reset: simulate_execution for a source; the header
\* check, then simulate_bytecode_execution for a bytecode.
Engine_run ==
    /\ driver.pc = "run"
    /\ LET input == driver.input
           out == IF driver.op = "execute"
                  THEN simulate(context.limit_tracker, input,
                                input.len * InstructionsPerByte)
                  ELSE IF BadHeader(input)
                  THEN [ tracker |-> context.limit_tracker,
                         result |-> [ kind |-> "InvalidBytecode" ] ]
                  ELSE simulate(context.limit_tracker, input,
                                BytecodeInstructions)
       IN /\ context' = [ context EXCEPT !.limit_tracker = out.tracker ]
          /\ ret' = Returned(driver.op, input.len, out.result)
    /\ driver' = Idle
    /\ UNCHANGED << cancel_pending, besideContext >>

\* Engine::cancel from any thread, at any moment.
Engine_cancel ==
    /\ context' = [ context EXCEPT !.cancelled = TRUE ]
    /\ cancel_pending' = TRUE
    /\ ret' = Returned("cancel", 0, NoResult)
    /\ UNCHANGED << driver, besideContext >>

\* ExecutionContext::set_custom from any thread, at any moment.
set_custom ==
    \E key \in Keys :
      /\ context' = [ context EXCEPT !.custom = @ \cup { key } ]
      /\ ret' = Returned("set_custom", 0, NoResult)
      /\ UNCHANGED << driver, cancel_pending, besideContext >>

EngineNext ==
    \/ Engine_call_execute
    \/ Engine_call_execute_bytecode
    \/ reset_tracker
    \/ reset_cancelled
    \/ reset_custom
    \/ Engine_run
    \/ Engine_cancel
    \/ set_custom

EngineSpec == EngineInit /\ [][EngineNext]_vars

\* The step is a call of execute or execute_bytecode by the driver.
Called ==
    /\ driver.pc = "idle"
    /\ driver'.pc # "idle" \/ ret'.call \in EngineExecutes

C12_Step ==
    Called /\ context.cancelled =>
      /\ ret'.call \in EngineExecutes
      /\ ret'.result.kind = "Cancelled"
      /\ driver' = Idle
      /\ context' = context

\* C12: if the cancellation flag is set when execute or execute_bytecode is
\* called, the call fails with Cancelled before the context is reset: the
\* counters of the limit tracker, the scratch map and the flag are as they
\* were.
C12_CancelledBeforeReset == [][C12_Step]_vars

\* A call has just failed with Cancelled on a context that holds counted
\* instructions, a scratch entry and the flag.
C12_Witness ==
    /\ ret.call \in EngineExecutes
    /\ ret.result.kind = "Cancelled"
    /\ context.cancelled
    /\ context.custom # {}
    /\ context.limit_tracker.instructions_executed > 0

C13_Step ==
    Called /\ cancel_pending =>
      /\ ret'.call \in EngineExecutes
      /\ ret'.result.kind = "Cancelled"

\* C13: after a cancel() from another thread, issued at any moment (while
\* an execute call is in flight too), the next execute call on the engine
\* fails with Cancelled: no cancel request is lost.
C13_CancelNeverLost == [][C13_Step]_vars

----------------------------------------------------------------------------
\* SandboxConfig and Sandbox (src/src/sandbox.rs): the Sandboxes of one
\* process, their isolated temp directories and the environment checks.

\* The environment variable names the client asks about and allows.
EnvNames == { "HOME", "PATH" }

\* SandboxConfig.env_vars: None, or Some(allow-set).
NoEnvVars == [ some |-> FALSE, value |-> {} ]
SomeEnvVars(allowed) == [ some |-> TRUE, value |-> allowed ]

\* The configurations the client builds: default and permissive (None, no
\* isolation), locked (empty allow-set, isolation), and what with_env_vars
\* and with_temp_isolation make of them.
SandboxConfigs ==
    { [ env_vars |-> e, isolate_temp |-> b ] :
        e \in { NoEnvVars } \cup { SomeEnvVars(a) : a \in SUBSET EnvNames },
        b \in BOOLEAN }

\* std::process::id() of the process the Sandboxes live in.
process_id == "pid"

\* temp_dir().join(format!("fusabi-sandbox-{}", std::process::id())).
temp_dir_name(pid) == << "fusabi-sandbox-", pid >>

\* Sandbox.temp_dir: Option<PathBuf>.
NoDir == << >>

\* A can_access_env that takes an absent allow-set for an empty one.
can_access_env_deny_absent(cfg, name) ==
    cfg.env_vars.some /\ name \in cfg.env_vars.value

\* SandboxConfig::can_access_env.
can_access_env(cfg, name) ==
    IF ~cfg.env_vars.some THEN TRUE
    ELSE name \in cfg.env_vars.value

besideSandbox ==
    << poolVars, trackerVars, contextVars, capVars, reuseVars, asyncVars >>

SandboxInit ==
    /\ NoPool
    /\ NoTracker
    /\ NoContext
    /\ NoCaps
    /\ NoCheckout
    /\ sandboxes = << >>
    /\ temp_dirs = {}
    /\ ret = Returned("none", 0, NoResult)

\* Sandbox::new(config): with isolation, create_dir_all makes the directory
\* (or finds it there), or fails and new returns the Io error.
Sandbox_new ==
    \E cfg \in SandboxConfigs, id \in 1..MaxSandboxes, io_error \in BOOLEAN :
      /\ id \notin DOMAIN sandboxes
      /\ io_error => cfg.isolate_temp
      /\ LET dir == temp_dir_name(process_id)
         IN IF io_error
            THEN /\ ret' = Returned("Sandbox_new", cfg, [ kind |-> "Io" ])
                 /\ UNCHANGED << sandboxes, temp_dirs >>
            ELSE /\ ret' = Returned("Sandbox_new", cfg, Ok)
                 /\ temp_dirs' = IF cfg.isolate_temp
                                 THEN temp_dirs \cup { dir } ELSE temp_dirs
                 /\ sandboxes' =
                      (id :> [ config |-> cfg,
                               temp_dir |-> IF cfg.isolate_temp
                                            THEN dir ELSE NoDir ])
                        @@ sandboxes
      /\ UNCHANGED besideSandbox

\* Drop for Sandbox: remove_dir_all of its temp_dir, the error ignored.
Sandbox_drop ==
    \E id \in DOMAIN sandboxes :
      /\ temp_dirs' = IF sandboxes[id].temp_dir # NoDir
                      THEN temp_dirs \ { sandboxes[id].temp_dir }
                      ELSE temp_dirs
      /\ sandboxes' = [ i \in DOMAIN sandboxes \ { id } |-> sandboxes[i] ]
      /\ ret' = Returned("drop", id, NoResult)
      /\ UNCHANGED besideSandbox

\* SandboxConfig::can_access_env(name) on a configuration.
SandboxConfig_can_access_env ==
    \E cfg \in SandboxConfigs, name \in EnvNames :
      /\ ret' = Returned("can_access_env",
                         [ name |-> name, env_vars |-> cfg.env_vars ],
                         [ kind |-> "bool",
                           value |-> can_access_env(cfg, name) ])
      /\ UNCHANGED << sandboxVars, besideSandbox >>

\* Sandbox::check_env(name) on a live Sandbox.
Sandbox_check_env ==
    \E id \in DOMAIN sandboxes, name \in EnvNames :
      /\ ret' = Returned("check_env",
                         [ name |-> name,
                           env_vars |-> sandboxes[id].config.env_vars ],
                         IF can_access_env(sandboxes[id].config, name)
                         THEN Ok ELSE [ kind |-> "SandboxViolation" ])
      /\ UNCHANGED << sandboxVars, besideSandbox >>

SandboxNext ==
    \/ Sandbox_new
    \/ Sandbox_drop
    \/ SandboxConfig_can_access_env
    \/ Sandbox_check_env

SandboxSpec == SandboxInit /\ [][SandboxNext]_vars

\* The live Sandboxes that were built with temp isolation.
Isolated == { id \in DOMAIN sandboxes : sandboxes[id].config.isolate_temp }

\* C18: each live Sandbox built with temp isolation owns a directory whose
\* name differs from that of every other live Sandbox of the process, and
\* the directory exists as long as the Sandbox lives: destroying another
\* Sandbox does not remove it.
C18_OwnDirectory ==
    \A i \in Isolated :
      /\ sandboxes[i].temp_dir # NoDir
      /\ sandboxes[i].temp_dir \in temp_dirs
      /\ \A j \in Isolated : j # i => sandboxes[j].temp_dir # sandboxes[i].temp_dir

\* The latest call asked whether a name is accessible, and was told yes.
EnvAsked == ret.call \in { "can_access_env", "check_env" }
EnvPermitted ==
    IF ret.call = "can_access_env" THEN ret.result.value ELSE ret.result = Ok

C20_AbsentAllowSetDenies ==
    EnvAsked /\ ~ret.arg.env_vars.some => ~EnvPermitted

----------------------------------------------------------------------------
\* Capability and Capabilities (src/src/capabilities.rs).

\* Capability::all(): the variants, in the order of the source.
Capability_all ==
    << "FsRead", "FsWrite", "FsExecute", "NetRequest", "NetListen",
       "ProcessExec", "EnvRead", "EnvWrite", "TimeRead", "Random",
       "StdinRead", "StdoutWrite", "StderrWrite", "Metrics", "Logging",
       "AsyncSpawn", "Crypto", "Serialize" >>

\* The enum Capability.
Capability == { Capability_all[i] : i \in DOMAIN Capability_all }

\* Capability::name.
Capability_name(c) ==
    CASE c = "FsRead" -> "fs:read"
      [] c = "FsWrite" -> "fs:write"
      [] c = "FsExecute" -> "fs:execute"
      [] c = "NetRequest" -> "net:request"
      [] c = "NetListen" -> "net:listen"
      [] c = "ProcessExec" -> "process:exec"
      [] c = "EnvRead" -> "env:read"
      [] c = "EnvWrite" -> "env:write"
      [] c = "TimeRead" -> "time:read"
      [] c = "Random" -> "random"
      [] c = "StdinRead" -> "stdin:read"
      [] c = "StdoutWrite" -> "stdout:write"
      [] c = "StderrWrite" -> "stderr:write"
      [] c = "Metrics" -> "metrics"
      [] c = "Logging" -> "logging"
      [] c = "AsyncSpawn" -> "async:spawn"
      [] c = "Crypto" -> "crypto"
      [] c = "Serialize" -> "serialize"

\* Option<Capability>.
NoCapability == [ some |-> FALSE, value |-> "" ]

\* A from_name that reads "fs:write" as FsRead.
Capability_from_name_confused(name) ==
    IF name \in { "fs:read", "fs:write" } THEN Some("FsRead")
    ELSE NoCapability

\* Capability::from_name.
Capability_from_name(name) ==
    CASE name = "fs:read" -> Some("FsRead")
      [] name = "fs:write" -> Some("FsWrite")
      [] name = "fs:execute" -> Some("FsExecute")
      [] name = "net:request" -> Some("NetRequest")
      [] name = "net:listen" -> Some("NetListen")
      [] name = "process:exec" -> Some("ProcessExec")
      [] name = "env:read" -> Some("EnvRead")
      [] name = "env:write" -> Some("EnvWrite")
      [] name = "time:read" -> Some("TimeRead")
      [] name = "random" -> Some("Random")
      [] name = "stdin:read" -> Some("StdinRead")
      [] name = "stdout:write" -> Some("StdoutWrite")
      [] name = "stderr:write" -> Some("StderrWrite")
      [] name = "metrics" -> Some("Metrics")
      [] name = "logging" -> Some("Logging")
      [] name = "async:spawn" -> Some("AsyncSpawn")
      [] name = "crypto" -> Some("Crypto")
      [] name = "serialize" -> Some("Serialize")
      [] OTHER -> NoCapability

\* Capability::is_dangerous.
is_dangerous(c) == c \in { "FsWrite", "ProcessExec", "NetListen", "EnvWrite" }

\* Capabilities::none and Capabilities::all.
Capabilities_none == {}
Capabilities_all == Capability

\* A safe_defaults that grants FsWrite too.
Capabilities_safe_defaults_writing ==
    { "TimeRead", "Random", "StdoutWrite", "StderrWrite", "Logging",
      "Serialize", "FsWrite" }

\* Capabilities::safe_defaults.
Capabilities_safe_defaults ==
    ((((({} \cup { "TimeRead" }) \cup { "Random" }) \cup { "StdoutWrite" })
        \cup { "StderrWrite" }) \cup { "Logging" }) \cup { "Serialize" }

\* Capabilities::has.
has(S, c) == c \in S

\* A require that lets every capability pass.
require_lenient(S, c) == Ok

\* Capabilities::require.
require(S, c) ==
    IF has(S, c) THEN Ok
    ELSE [ kind |-> "CapabilityDenied", capability |-> Capability_name(c) ]

\* Capabilities::has_dangerous.
has_dangerous(S) == \E c \in S : is_dangerous(c)

\* A merge that keeps only what both sets grant.
merge_common(A, B) == A \cap B

\* Capabilities::merge and Capabilities::intersect.
merge(A, B) == A \cup B
intersect(A, B) == A \cap B

----------------------------------------------------------------------------
\* A Capabilities set and the calls a client makes on it.

\* The capabilities the client adds and removes.
Toggled == { Capability_all[i] : i \in 1..MaxToggled }

\* The sets the client starts from and passes as the other set.
CapPresets ==
    { Capabilities_none, Capabilities_all, Capabilities_safe_defaults }

\* The strings the client parses: the names, and strings that are none.
NameInputs ==
    { Capability_name(c) : c \in Capability }
      \cup { "", "FsRead", "fs:READ", "fs", "fs:read ", "all" }

besideCaps ==
    << poolVars, trackerVars, contextVars, sandboxVars, reuseVars, asyncVars >>

CapInit ==
    /\ NoPool
    /\ NoTracker
    /\ NoContext
    /\ NoSandbox
    /\ NoCheckout
    /\ granted \in CapPresets
    /\ other \in CapPresets \cup { Toggled }
    /\ last_op = [ c \in Capability |-> "none" ]
    /\ ret = Returned("new", "", NoResult)

\* insert(cap) and remove(&cap) on the granted set.
insert(name, c) ==
    /\ granted' = granted \cup { c }
    /\ last_op' = [ last_op EXCEPT ![c] = "added" ]
    /\ ret' = Returned(name, c, NoResult)
    /\ UNCHANGED << other, besideCaps >>

remove(name, c) ==
    /\ granted' = granted \ { c }
    /\ last_op' = [ last_op EXCEPT ![c] = "removed" ]
    /\ ret' = Returned(name, c, NoResult)
    /\ UNCHANGED << other, besideCaps >>

Capabilities_with == \E c \in Toggled : insert("with", c)
Capabilities_grant == \E c \in Toggled : insert("grant", c)
Capabilities_without == \E c \in Toggled : remove("without", c)
Capabilities_revoke == \E c \in Toggled : remove("revoke", c)

\* A call that reads the set and returns `result`.
query(name, arg, result) ==
    /\ ret' = Returned(name, arg, result)
    /\ UNCHANGED << capVars, besideCaps >>

Capabilities_has ==
    \E c \in Capability :
      query("has", c, [ kind |-> "bool", value |-> has(granted, c) ])

Capabilities_require ==
    \E c \in Capability : query("require", c, require(granted, c))

Capabilities_has_dangerous ==
    query("has_dangerous", "",
          [ kind |-> "bool", value |-> has_dangerous(granted) ])

Capabilities_merge ==
    query("merge", "",
          [ kind |-> "Capabilities", granted |-> merge(granted, other) ])

Capabilities_intersect ==
    query("intersect", "",
          [ kind |-> "Capabilities", granted |-> intersect(granted, other) ])

from_name ==
    \E name \in NameInputs :
      query("from_name", name, Capability_from_name(name))

CapNext ==
    \/ Capabilities_with
    \/ Capabilities_grant
    \/ Capabilities_without
    \/ Capabilities_revoke
    \/ Capabilities_has
    \/ Capabilities_require
    \/ Capabilities_has_dangerous
    \/ Capabilities_merge
    \/ Capabilities_intersect
    \/ from_name

CapSpec == CapInit /\ [][CapNext]_vars

\* C21: S.require(c) returns Ok iff S.has(c) and otherwise CapabilityDenied
\* with the name of c, after any sequence of with / without / grant /
\* revoke; a capability one of them touched is in the set iff the latest
\* of them added it.
C21_RequireIffHas ==
    /\ ret.call = "require" =>
         /\ ret.result.kind = "Ok" <=> has(granted, ret.arg)
         /\ ret.result.kind # "Ok" =>
              ret.result = [ kind |-> "CapabilityDenied",
                             capability |-> Capability_name(ret.arg) ]
    /\ \A c \in Capability :
         last_op[c] # "none" => (has(granted, c) <=> last_op[c] = "added")

\* require has just denied a capability that was granted and then revoked.
C21_Witness ==
    /\ ret.call = "require"
    /\ ret.result.kind = "CapabilityDenied"
    /\ ret.result.capability = "fs:read"
    /\ last_op["FsRead"] = "removed"
    /\ \E c \in Capability : last_op[c] = "added"

\* EngineConfig::default().capabilities.
EngineCapabilities == Capabilities_safe_defaults

\* C22: safe_defaults() holds no capability that is_dangerous, so
\* has_dangerous() is false for it and for the set of an engine built from
\* EngineConfig::default().
C22_SafeDefaultsNotDangerous ==
    /\ \A c \in Capabilities_safe_defaults : ~is_dangerous(c)
    /\ ~has_dangerous(EngineCapabilities)
    /\ ret.call = "has_dangerous" /\ granted = Capabilities_safe_defaults =>
         ~ret.result.value

\* has_dangerous has just been asked of an untouched safe_defaults().
C22_Witness ==
    /\ ret.call = "has_dangerous"
    /\ granted = Capabilities_safe_defaults
    /\ \A c \in Capability : last_op[c] = "none"
    /\ ~ret.result.value

\* C23: A.merge(B) has c iff A or B has it, A.intersect(B) has c iff both
\* have it, and neither call changes A or B.
C23_State ==
    \A c \in Capability :
      /\ ret.call = "merge" =>
           (has(ret.result.granted, c) <=> has(granted, c) \/ has(other, c))
      /\ ret.call = "intersect" =>
           (has(ret.result.granted, c) <=> has(granted, c) /\ has(other, c))

C23_Step ==
    ret'.call \in { "merge", "intersect" } =>
      granted' = granted /\ other' = other

C23_MergeIntersect == [] C23_State /\ [][C23_Step]_vars

\* merge has just returned a set that is larger than either argument.
C23_Witness ==
    /\ ret.call = "merge"
    /\ ret.result.granted \ granted # {}
    /\ ret.result.granted \ other # {}

\* C24: the name mapping is a bijection on the 18 capabilities:
\* from_name(name(c)) = Some(c), distinct capabilities have distinct names,
\* and from_name is None for every other string.
C24_NameBijection ==
    /\ Cardinality(Capability) = 18
    /\ \A c \in Capability : Capability_from_name(Capability_name(c)) = Some(c)
    /\ \A c, d \in Capability :
         c # d => Capability_name(c) # Capability_name(d)
    /\ ret.call = "from_name" =>
         IF \E c \in Capability : Capability_name(c) = ret.arg
         THEN ret.result.some /\ Capability_name(ret.result.value) = ret.arg
         ELSE ret.result = NoCapability

\* from_name has just parsed "fs:write" into FsWrite.
C24_Witness ==
    /\ ret.call = "from_name"
    /\ ret.arg = "fs:write"
    /\ ret.result = Some("FsWrite")

----------------------------------------------------------------------------
\* NetPolicy (src/src/sandbox.rs).  A string is the sequence of its
\* characters.

\* The characters of the host names: a letter in both cases, another
\* letter and the dot.
HostChars == { "t", "T", "n", "." }

\* The strings over HostChars of length 0..n.
Strings(n) == UNION { [ 1..k -> HostChars ] : k \in 0..n }

\* char::to_lowercase and str::to_lowercase.
char_to_lowercase(ch) == IF ch = "T" THEN "t" ELSE ch
to_lowercase(str) == [ i \in DOMAIN str |-> char_to_lowercase(str[i]) ]

\* str::starts_with and str::ends_with.
starts_with(str, prefix) ==
    /\ Len(prefix) <= Len(str)
    /\ SubSeq(str, 1, Len(prefix)) = prefix
ends_with(str, suffix) ==
    /\ Len(suffix) <= Len(str)
    /\ SubSeq(str, Len(str) - Len(suffix) + 1, Len(str)) = suffix

\* A suffix that leaves the dot out with the star.
wildcard_suffix_dotless(a_lower) == SubSeq(a_lower, 3, Len(a_lower))

\* `&a_lower[1..]`: the entry without its star.
wildcard_suffix(a_lower) == SubSeq(a_lower, 2, Len(a_lower))

\* The closure of NetPolicy::is_allowed: the entry a matches the host.
entry_matches(a, host_lower) ==
    LET a_lower == to_lowercase(a)
    IN IF starts_with(a_lower, << "*", "." >>)
       THEN \/ ends_with(host_lower, wildcard_suffix(a_lower))
            \/ host_lower = SubSeq(a_lower, 3, Len(a_lower))
       ELSE host_lower = a_lower

\* NetPolicy::is_allowed.
NetPolicy_is_allowed(policy, host) ==
    LET host_lower == to_lowercase(host)
    IN CASE policy.kind = "DenyAll" -> FALSE
         [] policy.kind = "AllowAll" -> TRUE
         [] policy.kind = "AllowList" ->
              \E a \in policy.hosts : entry_matches(a, host_lower)
         [] policy.kind = "DenyList" ->
              ~ \E d \in policy.hosts : entry_matches(d, host_lower)

\* The wildcard entry `*.d`.
Wildcard(d) == << "*", "." >> \o d

\* The entries of the lists: a domain d or the wildcard `*.d`.
NetEntries ==
    Strings(MaxHostLen - 1) \cup { Wildcard(d) : d \in Strings(MaxHostLen - 1) }

\* NetPolicy::allow and NetPolicy::deny of one entry, or of that entry and
\* the host "n", and the two constant policies.
NetPolicies ==
    { [ kind |-> k, hosts |-> {} ] : k \in { "DenyAll", "AllowAll" } }
      \cup { [ kind |-> k, hosts |-> { a } \cup more ] :
               k \in { "AllowList", "DenyList" }, a \in NetEntries,
               more \in { {}, { << "n" >> } } }

NetInit ==
    /\ NoPool
    /\ NoTracker
    /\ NoContext
    /\ NoSandbox
    /\ NoCaps
    /\ NoCheckout
    /\ \E policy \in NetPolicies, host \in Strings(MaxHostLen) :
         ret = Returned("call", [ policy |-> policy, host |-> host ],
                        NoResult)

\* The client asks the policy about the host.
is_allowed ==
    /\ ret.call = "call"
    /\ ret' = Returned("is_allowed", ret.arg,
                       [ kind |-> "bool",
                         value |-> NetPolicy_is_allowed(ret.arg.policy,
                                                        ret.arg.host) ])
    /\ UNCHANGED << poolVars, besidePool >>

NetNext == is_allowed

NetSpec == NetInit /\ [][NetNext]_vars

\* The host is d, or ends in a dot and d, letter case apart.
UnderDomain(host, d) ==
    \/ to_lowercase(host) = to_lowercase(d)
    \/ \E sub \in Strings(MaxHostLen) :
         to_lowercase(host) = to_lowercase(sub \o << "." >> \o d)

\* C25: an allow-list entry `*.d` permits the host d and every host that
\* ends in `.d`, letter case apart, and no other host; a deny-list of the
\* same entries gives the opposite verdict for every host.
C25_WildcardSubdomains ==
    ret.call = "is_allowed" =>
      LET policy == ret.arg.policy
          host == ret.arg.host
          wild == { d \in Strings(MaxHostLen - 1) :
                      Wildcard(d) \in policy.hosts }
          under == \E d \in wild : UnderDomain(host, d)
          same == \E a \in policy.hosts :
                    a \notin { Wildcard(d) : d \in wild }
                      /\ to_lowercase(host) = to_lowercase(a)
      IN /\ policy.kind = "AllowList" => (ret.result.value <=> under \/ same)
         /\ policy.kind = "DenyList" =>
              (ret.result.value <=> ~(under \/ same))
         /\ policy.kind \in { "AllowList", "DenyList" } =>
              ret.result.value #
                NetPolicy_is_allowed(
                  [ policy EXCEPT !.kind = IF @ = "AllowList" THEN "DenyList"
                                           ELSE "AllowList" ], host)

\* The allow-list of `*.t` has just permitted the host `n.T`.
C25_Witness ==
    /\ ret.call = "is_allowed"
    /\ ret.arg.policy = [ kind |-> "AllowList", hosts |-> { Wildcard(<< "t" >>) } ]
    /\ ret.arg.host = << "n", ".", "T" >>
    /\ ret.result.value

----------------------------------------------------------------------------
\* compile_source, generate_bytecode and validate_bytecode
\* (src/src/compile.rs).  A buffer is the sequence of its bytes.

\* validate_bytecode: the shortest buffer it accepts and the highest
\* version byte it supports.
MinValidLen == 16
SupportedVersion == 1
\* generate_bytecode: the version byte it writes, the reserved bytes after
\* the flags and the bytes of the u64 hash.
GeneratedVersion == 1
ReservedLen == 10
HashLen == 8

\* b"FZB\x00".
Magic == << 70, 90, 66, 0 >>

\* n bytes of value b.
Fill(n, b) == [ i \in 1..n |-> b ]

\* The source texts: bytes of a blank (32) and of the digit 4 (52).
SourceTexts == UNION { [ 1..k -> { 32, 52 } ] : k \in 0..MaxSourceLen }

\* CompileOptions::default, development and production, by the fields that
\* generate_bytecode reads.
CompileOptions_default == [ opt_level |-> 0, debug_info |-> FALSE, strip |-> FALSE ]
CompileOptionsTried ==
    { CompileOptions_default,
      [ opt_level |-> 0, debug_info |-> TRUE, strip |-> FALSE ],
      [ opt_level |-> 2, debug_info |-> FALSE, strip |-> TRUE ] }

\* source.trim().is_empty(), for texts of blanks and digits.
is_blank(source) == \A i \in DOMAIN source : source[i] = 32

\* The flags byte: debug_info | strip << 1 | (opt_level & 3) << 4.
flags_byte(options) ==
    (IF options.debug_info THEN 1 ELSE 0)
      + (IF options.strip THEN 2 ELSE 0)
      + (options.opt_level % 4) * 16

\* generate_bytecode, with `hash` the bytes of simple_hash(source): the
\* model does not compute the 64-bit hash, it takes the bytes as given.
generate_bytecode(source, options, hash) ==
    Magic \o << GeneratedVersion >> \o << flags_byte(options) >>
      \o Fill(ReservedLen, 0) \o hash \o source

\* Result<Metadata>: the error with its message.
InvalidBytecode(msg) == [ kind |-> "InvalidBytecode", msg |-> msg ]

\* A validation that does not look at the version byte.
validate_bytecode_any_version(bytecode) ==
    IF Len(bytecode) < MinValidLen THEN InvalidBytecode("bytecode too short")
    ELSE IF SubSeq(bytecode, 1, 4) # Magic
    THEN InvalidBytecode("invalid magic number")
    ELSE Ok

\* validate_bytecode.
validate_bytecode(bytecode) ==
    IF Len(bytecode) < MinValidLen THEN InvalidBytecode("bytecode too short")
    ELSE IF SubSeq(bytecode, 1, 4) # Magic
    THEN InvalidBytecode("invalid magic number")
    ELSE IF bytecode[5] > SupportedVersion
    THEN InvalidBytecode("unsupported bytecode version")
    ELSE Ok

\* The buffers handed to validate_bytecode: a header of four bytes, a
\* version byte and zeros, cut at a length around the limits.
HeadersTried ==
    { Magic, << 88, 88, 88, 0 >>, << 70, 90, 66, 1 >>, << 102, 122, 98, 0 >>,
      << 0, 70, 90, 66 >> }
BuffersTried ==
    { SubSeq(head \o << version >> \o Fill(MinValidLen, 0), 1, len) :
        head \in HeadersTried,
        version \in 0..MaxVersionByte \cup { 255 },
        len \in { 0, 3, 4, 5, MinBytecodeLen - 1, MinBytecodeLen,
                  MinValidLen - 1, MinValidLen, MinValidLen + 1 } }

CompileInit ==
    /\ NoPool
    /\ NoTracker
    /\ NoContext
    /\ NoSandbox
    /\ NoCaps
    /\ NoCheckout
    /\ \/ \E bytecode \in BuffersTried :
            ret = Returned("call_validate",
                           [ bytecode |-> bytecode, compiled |-> FALSE ],
                           NoResult)
       \/ \E source \in SourceTexts, options \in CompileOptionsTried :
            ret = Returned("call_compile",
                           [ source |-> source, options |-> options ],
                           NoResult)

\* compile_source(source, options): the bytecode of the CompileResult.
compile_source ==
    /\ ret.call = "call_compile"
    /\ \E fill \in { 0, 255 } :
         ret' = Returned("compile_source", ret.arg,
                  IF is_blank(ret.arg.source)
                  THEN [ kind |-> "Compilation", msg |-> "empty source" ]
                  ELSE [ kind |-> "Ok",
                         bytecode |-> generate_bytecode(ret.arg.source,
                                        ret.arg.options, Fill(HashLen, fill)) ])
    /\ UNCHANGED << poolVars, besidePool >>

\* validate_bytecode on a buffer of the client.
validate_buffer ==
    /\ ret.call = "call_validate"
    /\ ret' = Returned("validate_bytecode", ret.arg,
                       validate_bytecode(ret.arg.bytecode))
    /\ UNCHANGED << poolVars, besidePool >>

\* validate_bytecode on the bytecode compile_source returned.
validate_compiled ==
    /\ ret.call = "compile_source"
    /\ ret.result.kind = "Ok"
    /\ ret' = Returned("validate_bytecode",
                       [ bytecode |-> ret.result.bytecode, compiled |-> TRUE,
                         options |-> ret.arg.options ],
                       validate_bytecode(ret.result.bytecode))
    /\ UNCHANGED << poolVars, besidePool >>

\* `&bytecode[0..4] == b"FZB\x00"`, for a buffer that has four bytes.
has_magic(bytecode) == Len(bytecode) >= 4 /\ SubSeq(bytecode, 1, 4) = Magic

\* An engine that validates a buffer as validate_bytecode does.
execute_bytecode_header_validated(bytecode) ==
    IF validate_bytecode(bytecode) # Ok
    THEN InvalidBytecode("invalid bytecode header")
    ELSE Ok

\* Engine::execute_bytecode past the reset: the header check on the bytes
\* of the buffer (Ok: the buffer goes on to the execution).
execute_bytecode_header(bytecode) ==
    IF BadHeader([ len |-> Len(bytecode), magic |-> has_magic(bytecode) ])
    THEN InvalidBytecode("invalid bytecode header")
    ELSE Ok

\* Engine::execute_bytecode on the buffer that validate_bytecode has seen.
execute_buffer ==
    /\ ret.call = "validate_bytecode"
    /\ ret' = Returned("execute_bytecode",
                       [ bytecode |-> ret.arg.bytecode,
                         validated |-> ret.result ],
                       execute_bytecode_header(ret.arg.bytecode))
    /\ UNCHANGED << poolVars, besidePool >>

CompileNext ==
    \/ compile_source
    \/ validate_buffer
    \/ validate_compiled
    \/ execute_buffer

CompileSpec == CompileInit /\ [][CompileNext]_vars

\* C26: validate_bytecode rejects with InvalidBytecode every buffer that is
\* shorter than 16 bytes, or does not start with the magic, or has a
\* version byte above 1, and accepts every other buffer; it accepts what
\* compile_source returns for a non-blank source with default options.
C26_ValidateBytecode ==
    /\ ret.call = "validate_bytecode" =>
         LET b == ret.arg.bytecode
             bad == \/ Len(b) < 16
                    \/ << b[1], b[2], b[3], b[4] >> # << 70, 90, 66, 0 >>
                    \/ b[5] > 1
         IN /\ bad => ret.result.kind = "InvalidBytecode"
            /\ ~bad => ret.result = Ok
            /\ ret.arg.compiled /\ ret.arg.options = CompileOptions_default =>
                 ret.result = Ok
    /\ ret.call = "compile_source" =>
         (ret.result.kind = "Ok" <=> ~is_blank(ret.arg.source))

\* validate_bytecode has just accepted the bytecode of a compiled source.
C26_Witness ==
    /\ ret.call = "validate_bytecode"
    /\ ret.arg.compiled
    /\ ret.arg.options = CompileOptions_default
    /\ ret.result = Ok

----------------------------------------------------------------------------
\* Error and its two classifications (src/src/error.rs), by variant.

\* The variants of the enum Error.
ErrorKinds ==
    { "Compilation", "Runtime", "LimitViolation", "ValueConversion",
      "CapabilityDenied", "SandboxViolation", "PoolExhausted", "PoolTimeout",
      "PoolShutdown", "EnginePoisoned", "Io", "InvalidConfig",
      "VersionMismatch", "HostFunction", "InvalidBytecode", "Timeout",
      "Cancelled", "Internal" }

\* Error::is_transient.
is_transient(kind) == kind \in { "PoolExhausted", "PoolTimeout", "Timeout" }

\* A classification that does not count PoolShutdown as fatal.
is_fatal_engine_only(kind) == kind \in { "EnginePoisoned", "Internal" }

\* Error::is_fatal.
is_fatal(kind) == kind \in { "EnginePoisoned", "PoolShutdown", "Internal" }

\* The latest step returned an error from acquire or try_acquire.
AcquireFailed ==
    ret.call \in { "acquire", "try_acquire" } /\ ret.value # "Ok"

\* is_transient is true exactly for PoolExhausted, PoolTimeout and Timeout,
\* is_fatal exactly for EnginePoisoned, PoolShutdown and Internal, and no
\* kind is both.
Classification ==
    \A kind \in ErrorKinds :
      /\ is_transient(kind) <=>
           kind = "PoolExhausted" \/ kind = "PoolTimeout" \/ kind = "Timeout"
      /\ is_fatal(kind) <=>
           kind = "EnginePoisoned" \/ kind = "PoolShutdown" \/ kind = "Internal"
      /\ ~(is_transient(kind) /\ is_fatal(kind))

\* C27 as stated: the classification, and every error that acquire or
\* try_acquire returns is transient or fatal.
C27_AcquireErrorsClassified ==
    /\ Classification
    /\ AcquireFailed =>
         /\ ret.value \in ErrorKinds
         /\ is_transient(ret.value) \/ is_fatal(ret.value)

\* C27, amended: the classification; the errors PoolShutdown, PoolTimeout
\* and PoolExhausted of acquire and try_acquire are each transient or
\* fatal, and the one other error they return, the Io error of a lazy
\* engine construction that failed, is neither.
C27_ErrorClassification ==
    /\ Classification
    /\ AcquireFailed =>
         /\ ret.value \in { "PoolShutdown", "PoolTimeout", "PoolExhausted",
                            "Io" }
         /\ ret.value \in ErrorKinds
         /\ (is_transient(ret.value) \/ is_fatal(ret.value))
              <=> ret.value # "Io"

\* try_acquire has just returned the Io error of a failed construction.
C27_Witness ==
    /\ ret.call = "try_acquire"
    /\ ret.value = "Io"
    /\ ~is_transient(ret.value)
    /\ ~is_fatal(ret.value)

----------------------------------------------------------------------------
\* The outcome of a call that passed the cancellation check, from its input
\* and the configured limits alone.
Outcome(op, input) ==
    IF op = "execute_bytecode" /\ BadHeader(input)
    THEN [ kind |-> "InvalidBytecode" ]
    ELSE IF Elapsed(input) > EngineLimits.timeout.value
    THEN Exceeded("TimeExceeded", EngineLimits.timeout.value, Elapsed(input))
    ELSE LET n == IF op = "execute" THEN input.len * InstructionsPerByte
                  ELSE BytecodeInstructions
         IN IF n > max_instructions
            THEN Exceeded("InstructionsExceeded", max_instructions, n)
            ELSE [ kind |-> "Value" ]

C28_Step ==
    /\ driver.pc = "reset_tracker" /\ driver'.pc # driver.pc =>
         context'.limit_tracker = LimitTracker_new
    /\ driver.pc = "reset_cancelled" /\ driver'.pc # driver.pc =>
         ~context'.cancelled
    /\ driver.pc = "reset_custom" /\ driver'.pc # driver.pc =>
         context'.custom = {}
    /\ driver.pc = "run" /\ driver'.pc # driver.pc =>
         /\ context.limit_tracker = LimitTracker_new
         /\ ret'.call = driver.op
         /\ ret'.result = Outcome(driver.op, driver.input)

\* C28: a call of execute or execute_bytecode that passed the cancellation
\* check runs on a reset context: the reset zeroes the counters, clears
\* the flag and empties the scratch map, so what earlier executions
\* consumed or stored does not change the outcome, which is decided by the
\* input and the configured limits.
C28_FreshContext == [][C28_Step]_vars

\* A call that entered on a context used by earlier calls stands behind the
\* reset, the counters zero and the scratch map empty.
C28_Witness ==
    /\ driver.pc = "run"
    /\ driver.used
    /\ context.limit_tracker = LimitTracker_new
    /\ context.custom = {}

C29_Step ==
    /\ Called /\ context.cancelled /\ ret'.call = "execute_bytecode" =>
         ret'.result.kind = "Cancelled" /\ context' = context
    /\ Called /\ ~context.cancelled => driver'.pc = "reset_tracker"
    /\ ret'.call = "execute_bytecode" /\ ret'.result.kind # "Cancelled" =>
         /\ driver.pc = "run"
         /\ ret'.result.kind = "InvalidBytecode" <=> BadHeader(driver.input)
         /\ ret'.result.kind = "InvalidBytecode" =>
              /\ context'.limit_tracker = LimitTracker_new
              /\ context'.custom = context.custom
    /\ driver'.pc = "run" /\ driver.pc # "run" => context'.custom = {}

\* C29: execute_bytecode checks the cancellation, resets the context and
\* validates the header, in this order: on a cancelled engine it returns
\* Cancelled for an invalid buffer too; otherwise it returns
\* InvalidBytecode iff the buffer is shorter than the minimum or its first
\* four bytes are not the magic, and then the context has been reset (the
\* counters zero, the scratch map emptied before the validation).
C29_BytecodeOrder == [][C29_Step]_vars

\* execute_bytecode has just rejected a buffer too short for a header: the
\* counters are zero and the scratch map is empty.
C29_Witness ==
    /\ ret.call = "execute_bytecode"
    /\ ret.result.kind = "InvalidBytecode"
    /\ ret.arg < MinBytecodeLen
    /\ context.limit_tracker = LimitTracker_new
    /\ context.custom = {}

----------------------------------------------------------------------------
\* A local state that one more thread is in after the step.
Arrived(q) == CopiesIn(q, threads') > CopiesIn(q, threads)

\* The local states of the lazy creation path.
Growing == { "load", "cas", "new" }

C30_State ==
    \* the creation path is that of a lazy pool, entered by acquire,
    \* try_acquire and the acquire of execute / execute_bytecode
    \A r \in Locals : r.pc \in Growing =>
      lazy_init /\ r.handle = NoEngine

C30_Step ==
    \* the creation path starts at a receive that found the channel empty
    \* (for acquire, the expiry of the wait), and goes load, cas, new
    /\ \A q \in BagToSet(threads') : Arrived(q) =>
         /\ q.pc = "load" =>
              /\ Len(engine_rx) = 0
              /\ \E r \in Locals : r.pc = "recv" /\ Moved(r)
         /\ q.pc = "cas" => \E r \in Locals : r.pc = "load" /\ Moved(r)
         /\ q.pc = "new" =>
              /\ created' = created + 1
              /\ \E r \in Locals : r.pc = "cas" /\ Moved(r)
    \* past new, engines are constructed on that path only
    /\ phase = "ready" /\ NEXT_ID' # NEXT_ID =>
         \E r \in Locals : r.pc = "new" /\ Moved(r)
    \* a receive with an engine in the channel returns that engine and
    \* constructs nothing
    /\ \A r \in Locals :
         lazy_init /\ r.pc = "recv" /\ Moved(r) /\ Len(engine_rx) > 0 =>
           /\ engine_rx' = Tail(engine_rx)
           /\ UNCHANGED << created, NEXT_ID, engines >>
           /\ IF r.op \in { "acquire", "try_acquire" }
              THEN /\ ret' = Return(r.op, "Ok")
                   /\ Arrived(Holder(Head(engine_rx)))
              ELSE Arrived([ r EXCEPT !.pc = "run",
                                      !.handle = Head(engine_rx) ])
    \* a lazily created engine goes to the caller, not to the channel
    /\ phase = "ready" =>
         \A e \in engines' \ engines :
           /\ e \notin Range(engine_rx')
           /\ \E q \in BagToSet(threads') : q.handle = e /\ Arrived(q)
    \* an engine enters the channel in the drop of its handle
    /\ phase = "ready" =>
         \A e \in Range(engine_rx') \ Range(engine_rx) :
           \E r \in Locals : r.pc = "drop_send" /\ r.engine = e /\ Moved(r)

\* C30: a lazy pool prefers reuse to growth: acquire and try_acquire
\* construct an engine only after their receive on the channel failed (for
\* acquire, after the wait expired); a receive that finds an engine in the
\* channel returns that engine and leaves the created-count alone; a lazily
\* created engine is handed to the caller and first enters the channel
\* when its handle is dropped.
C30_ReuseBeforeGrowth == [] C30_State /\ [][C30_Step]_vars

\* On a lazy pool with a creation slot left, an acquire has just been served
\* from the channel by an engine that an earlier call created and dropped.
C30_Witness ==
    /\ lazy_init
    /\ created = 1
    /\ size = 2
    /\ engines = { 1 }
    /\ engine_rx = << >>
    /\ acquisitions = 2
    /\ releases = 1
    /\ ret.call \in { "acquire", "try_acquire" }
    /\ ret.value = "Ok"
    /\ LiveOwners(1) = 1

----------------------------------------------------------------------------
\* The handles ever issued: those released and those still held.
Issued == releases + LiveTotal

\* The calls that have counted themselves and not yet returned or obtained a
\* handle.
Counted == Total({ r \in Locals :
                     r.pc \in { "recv", "timeout" } \cup Growing })

C31_State ==
    /\ releases <= Issued
    /\ Issued + Counted <= acquisitions

C31_Step ==
    \* a call rejected by the shutdown check counts nothing and goes no further
    /\ ret'.value = "PoolShutdown" =>
         /\ shutdown
         /\ acquisitions' = acquisitions
         /\ threads' = threads
    \* a call that passes the check counts itself, once, before its receive
    /\ \A r \in Locals : r.pc = "count" /\ Moved(r) =>
         /\ acquisitions' = acquisitions + 1
         /\ Arrived([ r EXCEPT !.pc = "recv" ])
    /\ acquisitions' # acquisitions =>
         \E r \in Locals : r.pc = "count" /\ Moved(r)
    \* the call stays counted whether it fails or returns a handle
    /\ ret'.value \in { "PoolTimeout", "PoolExhausted", "Io" } =>
         /\ acquisitions' = acquisitions
         /\ Issued' = Issued
         /\ \E r \in Locals : r.pc \in { "recv", "timeout" } \cup Growing
                                /\ Moved(r)
    /\ Issued' # Issued =>
         /\ Issued' = Issued + 1
         /\ acquisitions' = acquisitions
         /\ releases' = releases
    \* the release is counted before the engine is sent back
    /\ releases' # releases =>
         /\ releases' = releases + 1
         /\ engine_rx' = engine_rx
         /\ \E r \in Locals : r.handle # NoEngine /\ Moved(r)
                                /\ r.handle \notin Range(engine_rx)
    /\ \A e \in Range(engine_rx') \ Range(engine_rx) :
         phase = "ready" => releases' = releases /\ releases >= 1

\* C31: the acquisitions counter counts attempts: every acquire or
\* try_acquire that passes the shutdown check adds one to it, whether it
\* returns a handle or fails, and a call rejected with PoolShutdown adds
\* nothing; so releases <= handles ever issued <= acquisitions in every
\* reachable state, and the release is counted before the engine is
\* available again.
C31_CountsAttempts == [] C31_State /\ [][C31_Step]_vars

\* Two attempts were counted and one handle issued: the second call failed.
C31_Witness ==
    /\ acquisitions = 2
    /\ Issued = 1
    /\ releases = 0
    /\ ret = Return("try_acquire", "PoolExhausted")

----------------------------------------------------------------------------
\* cancel() has been called on the engine: the request is still unobserved,
\* or it was observed and the flag is still set (a call that observes the
\* flag leaves it set, and no call enters the reset while it is set).
EverCancelled == cancel_pending \/ context.cancelled

C32_Step ==
    Called /\ EverCancelled =>
      /\ ret'.call \in EngineExecutes
      /\ ret'.result.kind = "Cancelled"
      /\ context'.cancelled

\* C32: cancellation is sticky: after cancel() on an engine or a handle,
\* every later execute or execute_bytecode on it returns Cancelled and
\* leaves the flag set, for the handle that cancelled and for every later
\* handle that receives the engine from the pool.
C32_CancelSticks == [][C32_Step]_vars

----------------------------------------------------------------------------
\* One pooled engine through its checkouts: a handle is issued on it, its
\* holder works on the context and executes, drops the handle, and the next
\* handle receives the same engine.  The scratch map holds entries
\* [key, value]; a holder writes the number of its checkout as the value.

besideReuse ==
    << poolVars, trackerVars, sandboxVars, capVars, asyncVars, cancel_pending >>

ReuseInit ==
    /\ NoPool
    /\ NoTracker
    /\ NoSandbox
    /\ NoCaps
    /\ context = ExecutionContext_new
    /\ driver = Idle
    /\ cancel_pending = FALSE
    /\ checkout = [ n |-> 0, held |-> FALSE ]
    /\ permits = 0
    /\ ret = Returned("new", 0, NoResult)

\* acquire / try_acquire, the Ok arm of the receive: the engine leaves the
\* channel inside a new PoolHandle.
Handle_acquire ==
    /\ ~checkout.held
    /\ checkout.n < MaxCheckouts
    /\ checkout' = [ n |-> checkout.n + 1, held |-> TRUE ]
    /\ ret' = Returned("acquire", 0, NoResult)
    /\ UNCHANGED << context, driver, besideReuse >>

\* A drop that hands the engine back with a fresh context.
Handle_drop_reset ==
    /\ checkout.held
    /\ driver.pc = "idle"
    /\ checkout' = [ checkout EXCEPT !.held = FALSE ]
    /\ context' = ExecutionContext_new
    /\ ret' = Returned("drop", 0, NoResult)
    /\ UNCHANGED << driver, besideReuse >>

\* PoolHandle::drop: the engine is taken out of the handle, marked used and
\* sent back; its context is not touched.  (No execute call is in flight: it
\* borrows the handle.)
Handle_drop ==
    /\ checkout.held
    /\ driver.pc = "idle"
    /\ checkout' = [ checkout EXCEPT !.held = FALSE ]
    /\ ret' = Returned("drop", 0, NoResult)
    /\ UNCHANGED << context, driver, besideReuse >>

\* HashMap::insert on the scratch map: the entry of the key is replaced.
custom_insert(custom, key, value) ==
    { en \in custom : en.key # key } \cup { [ key |-> key, value |-> value ] }

\* HashMap::get(key).cloned().
custom_get(custom, key) ==
    IF \E en \in custom : en.key = key
    THEN Some((CHOOSE en \in custom : en.key = key).value)
    ELSE None

\* handle.engine().context().set_custom(key, value) by the holder.
Handle_set_custom ==
    /\ checkout.held
    /\ \E key \in Keys :
         context' = [ context EXCEPT
                        !.custom = custom_insert(@, key, checkout.n) ]
    /\ ret' = Returned("set_custom", 0, NoResult)
    /\ UNCHANGED << driver, checkout, besideReuse >>

\* handle.engine().context().get_custom(key) by the holder.
Handle_get_custom ==
    /\ checkout.held
    /\ \E key \in Keys :
         ret' = Returned("get_custom", 0, custom_get(context.custom, key))
    /\ UNCHANGED << context, driver, checkout, besideReuse >>

\* PoolHandle::execute by the holder: Engine::execute on the owned engine.
Handle_execute ==
    /\ checkout.held
    /\ Engine_call_execute

\* PoolHandle::cancel by the holder: Engine::cancel on the owned engine.
Handle_cancel ==
    /\ checkout.held
    /\ Engine_cancel

ReuseNext ==
    \/ Handle_acquire
    \/ Handle_drop
    \/ Handle_set_custom
    \/ Handle_get_custom
    \/ Handle_execute
    \/ Handle_cancel
    \/ reset_tracker
    \/ reset_cancelled
    \/ reset_custom
    \/ Engine_run

ReuseSpec == ReuseInit /\ [][ReuseNext]_vars

\* The scratch entries that an earlier checkout wrote.
Inherited == { en \in context.custom : en.value < checkout.n }

C33_Step ==
    \* issuing and dropping a handle leave the context of the engine alone
    /\ checkout' # checkout => context' = context
    \* the holder reads what the map holds, whoever wrote it
    /\ ret'.call = "get_custom" =>
         /\ ret'.result = custom_get(context.custom, "key")
         /\ Inherited # {} => ret'.result.some
                                /\ ret'.result.value < checkout.n
    \* what the earlier checkouts left goes in the reset of the first
    \* execute call
    /\ driver.pc = "reset_tracker" /\ driver'.pc # driver.pc =>
         context'.limit_tracker = LimitTracker_new
    /\ driver.pc = "reset_custom" /\ driver'.pc # driver.pc =>
         context'.custom = {}
    /\ Inherited' \subseteq Inherited \/ checkout' # checkout

\* C33: returning an engine to the pool does not reset its context: the
\* scratch entries and the counters that one checkout left are there for
\* the next handle on the same engine, which reads them with get_custom,
\* until the first execute call of that handle resets them.
C33_ContextSurvivesReturn == [][C33_Step]_vars

\* The holder of the second handle has just read the entry that the holder
\* of the first wrote, and the tracker still holds the instructions that the
\* first counted.
C33_Witness ==
    /\ checkout = [ n |-> 2, held |-> TRUE ]
    /\ ret.call = "get_custom"
    /\ ret.result = Some(1)
    /\ context.limit_tracker.instructions_executed > 0
    /\ driver.pc = "idle"

----------------------------------------------------------------------------
\* The thread in r is at its compare-and-swap with a stale count: another
\* caller that read the same count claimed the slot first.
Loses(r) == r.pc = "cas" /\ created # r.created

C34_State ==
    \* the count a caller brings to its compare-and-swap was below capacity
    \A r \in Locals : r.pc = "cas" =>
      lazy_init /\ r.created < size /\ r.created <= created

C34_Step ==
    \A r \in Locals : Loses(r) /\ Moved(r) =>
      \* one attempt: the loser claims nothing and does not read again
      /\ UNCHANGED << created, NEXT_ID, engines, engine_rx >>
      /\ \A q \in BagToSet(threads') : Arrived(q) => q.pc = "timeout"
      \* try_acquire fails with PoolExhausted{count: N} at once
      /\ r.op = "try_acquire" =>
           /\ ret' = Return("try_acquire", "PoolExhausted")
           /\ ret'.count = size
           /\ timeouts' = timeouts
      \* acquire goes on to count a timeout and fail with PoolTimeout
      /\ r.op \in Blocking =>
           /\ Arrived([ r EXCEPT !.pc = "timeout", !.created = 0 ])
           /\ ret' = NoReturn

C34_TimeoutStep ==
    \A r \in Locals : r.pc = "timeout" /\ Moved(r) =>
      /\ ret'.value = "PoolTimeout"
      /\ timeouts' = timeouts + 1
      /\ created' = created

\* C34: lazy creation makes one compare-and-swap attempt: of two callers on
\* a lazy pool that read the same created-count c < N, the loser fails,
\* try_acquire with PoolExhausted{count: N}, acquire with PoolTimeout and a
\* counted timeout, also when fewer than N engines were created and a
\* creation slot is still free.
C34_SingleAttempt == [] C34_State /\ [][C34_Step /\ C34_TimeoutStep]_vars

\* On a lazy pool of capacity 2 with one slot claimed and the other free, a
\* try_acquire has just failed with PoolExhausted: it lost the race for the
\* first slot.
C34_Witness ==
    /\ lazy_init
    /\ size = 2
    /\ created = 1
    /\ Len(engine_rx) = 0
    /\ ret = Return("try_acquire", "PoolExhausted")

----------------------------------------------------------------------------
\* The local states of a call past its shutdown check.
PastCheck == { "count", "recv", "timeout" } \cup Growing

C35_State ==
    \* a call past the check can go on, shut down or not
    \A r \in Locals :
      /\ r.pc = "recv" /\ r.op \in Blocking => ENABLED acquire_recv(r)
      /\ r.pc = "recv" /\ r.op = "try_acquire" => ENABLED try_acquire_recv(r)
      /\ r.pc = "new" => ENABLED lazy_new(r)

C35_Step ==
    \* PoolShutdown is returned by the check at entry and nowhere else
    /\ ret'.value = "PoolShutdown" => threads' = threads
    /\ \A r \in Locals : r.pc \in PastCheck /\ Moved(r) =>
         ret'.value # "PoolShutdown"
    \* on a shut-down pool, the receive of a call that passed the check
    \* takes the engine it finds and the call gets its handle
    /\ \A r \in Locals :
         shutdown /\ r.pc = "recv" /\ Moved(r) /\ Len(engine_rx) > 0 =>
           /\ engine_rx' = Tail(engine_rx)
           /\ LiveTotal' = LiveTotal + 1
           /\ r.op \in { "acquire", "try_acquire" } =>
                ret' = Return(r.op, "Ok")
    \* and so does the construction of an engine in a claimed slot
    /\ \A r \in Locals :
         shutdown /\ r.pc = "new" /\ Moved(r) /\ engines' # engines =>
           /\ LiveTotal' = LiveTotal + 1
           /\ r.op \in { "acquire", "try_acquire" } =>
                ret' = Return(r.op, "Ok")

\* C35: the shutdown flag is read once, at the entry of acquire and
\* try_acquire: a call that passed the check before shutdown() still
\* returns a handle when its receive finds an engine (or, on a lazy pool,
\* when it claims a creation slot), so a handle can be issued while
\* is_shutdown() is true.
C35_CheckedOnce == [] C35_State /\ [][C35_Step]_vars

\* On a shut-down eager pool of one engine, the second acquire has just
\* returned a handle on the engine that the first handle gave back.
C35_Witness ==
    /\ shutdown
    /\ ~lazy_init
    /\ size = 1
    /\ acquisitions = 2
    /\ releases = 1
    /\ LiveTotal = 1
    /\ ret = Return("acquire", "Ok")

----------------------------------------------------------------------------
\* No call and no drop is in progress: every thread of the bag holds a
\* handle between calls.
Quiescent == \A r \in Locals : Holding(r)

\* The creation slots claimed by a construction that failed: those claimed,
\* less the engines constructed and the constructions under way.
Failed ==
    created - Cardinality(engines) - Total({ r \in Locals : r.pc = "new" })

\* C36 as stated: a construction that fails after the created-count was
\* incremented leaves the count incremented, and stats().in_use exceeds the
\* number of live handles by one in every later quiescent state; without
\* such a failure in_use is the number of live handles in every quiescent
\* state.
C36_ExcessOfOne ==
    phase = "ready" /\ Quiescent =>
      stats.in_use = LiveTotal + (IF Failed > 0 THEN 1 ELSE 0)

C36_State ==
    phase = "ready" =>
      /\ Failed >= 0
      /\ Cardinality(engines) <= size - Failed
      /\ Len(engine_rx) <= size - Failed
      /\ Quiescent => stats.in_use = LiveTotal + Failed

C36_Step ==
    \* the failing call returns the construction error and keeps the slot
    /\ ret'.value = "Io" =>
         /\ \E r \in Locals : r.pc = "new" /\ Moved(r)
         /\ created' = created
         /\ Failed' = Failed + 1
    \* a slot is lost in no other way, and never given back
    /\ phase = "ready" /\ Failed' # Failed => ret'.value = "Io"
    /\ phase = "ready" => created' >= created

\* C36, amended: a creation slot claimed by the compare-and-swap is never
\* given back: a construction that fails returns its error and leaves the
\* created-count incremented; with f such failures the pool holds at most
\* N - f engines and, in every quiescent state, stats().in_use is the
\* number of live handles plus f (the number of live handles when no
\* construction failed).
C36_SlotNeverReturned == [] C36_State /\ [][C36_Step]_vars

\* On a lazy pool of capacity 2 one construction failed and one handle is
\* held, no call in progress: in_use is 2.
C36_Witness ==
    /\ lazy_init
    /\ size = 2
    /\ Quiescent
    /\ Failed = 1
    /\ LiveTotal = 1
    /\ stats.in_use = 2

----------------------------------------------------------------------------
\* The drops that have counted their release and not yet their execution.
Timing == Total({ r \in Locals : r.pc = "drop_time" })

C37_State ==
    /\ releases = executions + Timing
    /\ Quiescent => executions = releases

C37_Step ==
    \* an execute call, through a handle or inside EnginePool::execute,
    \* leaves the counter alone
    /\ ret'.call \in HandleExecutes => executions' = executions
    /\ \A r \in Locals : r.pc = "run" /\ Moved(r) => executions' = executions
    \* every drop of a handle adds one, after it counted the release
    /\ executions' # executions =>
         /\ executions' = executions + 1
         /\ releases' = releases
         /\ \E r \in Locals : r.pc = "drop_time" /\ Moved(r)
    /\ \A r \in Locals : r.pc = "drop_time" /\ Moved(r) =>
         /\ executions' = executions + 1
         /\ Arrived([ r EXCEPT !.pc = "drop_send" ])

----------------------------------------------------------------------------
\* C38: Engine::execute_bytecode and validate_bytecode do not accept the
\* same buffers: execute_bytecode asks for 8 bytes and the magic only, so it
\* runs buffers of 8 to 15 bytes and buffers whose version byte is above 1,
\* which validate_bytecode rejects; every buffer that validate_bytecode
\* accepts, execute_bytecode accepts.
C38_ExecuteAcceptsMore ==
    ret.call = "execute_bytecode" =>
      LET b == ret.arg.bytecode
          executes == ret.result = Ok
          validates == ret.arg.validated = Ok
      IN /\ ret.arg.validated = validate_bytecode(b)
         /\ executes <=> Len(b) >= MinBytecodeLen /\ has_magic(b)
         /\ validates => executes
         /\ has_magic(b) /\ Len(b) >= MinBytecodeLen /\ Len(b) < MinValidLen =>
              executes /\ ~validates
         /\ has_magic(b) /\ Len(b) >= MinValidLen /\ b[5] > SupportedVersion =>
              executes /\ ~validates

\* execute_bytecode has just accepted a buffer of 8 bytes with the magic,
\* which validate_bytecode had rejected as too short.
C38_Witness ==
    /\ ret.call = "execute_bytecode"
    /\ Len(ret.arg.bytecode) = MinBytecodeLen
    /\ ret.result = Ok
    /\ ret.arg.validated = InvalidBytecode("bytecode too short")

----------------------------------------------------------------------------
\* AsyncEnginePool: a semaphore of `size` permits in front of try_acquire.
\* Its threads are those of the pool; a thread at "check" holds a permit and
\* is about to enter try_acquire.

besideAsync == << trackerVars, contextVars, sandboxVars, capVars, reuseVars >>

\* The acquire calls that hold a permit: in try_acquire, or about to enter.
InFlight == Total({ r \in Locals : r.op = "try_acquire" })

\* A permit that stays out for as long as the handle it guarded is held.
permit_kept_with_handle ==
    permits' = IF ret'.call = "try_acquire" /\ ret'.value # "Ok"
               THEN permits + 1 ELSE permits

\* The local `_permit` of AsyncEnginePool::acquire is dropped when the
\* function returns, with the result of try_acquire.
permit_release ==
    permits' = IF ret'.call = "try_acquire" THEN permits + 1 ELSE permits

\* EnginePool::new, then AsyncEnginePool::new: Semaphore::new(config.size).
AsyncEnginePool_new ==
    /\ EnginePool_new
    /\ permits' = IF phase' = "ready" THEN size ELSE 0

\* AsyncEnginePool::acquire, `self.semaphore.acquire().await`: the call
\* waits while no permit is available.
AsyncEnginePool_acquire ==
    /\ phase = "ready"
    /\ SomeFree
    /\ is_shutdown \/ acquisitions + InFlight < MaxAcquisitions
    /\ permits > 0
    /\ permits' = permits - 1
    /\ Enter([ NewCall("try_acquire") EXCEPT !.pc = "check" ])
    /\ ret' = NoReturn
    /\ UNCHANGED << config, engine_rx, created, shutdown, counters, engineVars >>

\* `self.inner.try_acquire()`, its first statement: the shutdown check.
AsyncEnginePool_try_acquire(r) ==
    /\ r.pc = "check"
    /\ IF is_shutdown
       THEN fail(r, "PoolShutdown")
       ELSE /\ Step(r, [ r EXCEPT !.pc = "count" ])
            /\ ret' = NoReturn
    /\ permit_release
    /\ UNCHANGED << config, engine_rx, created, shutdown, counters, engineVars >>

\* The pool before EnginePool::new, no permit yet.
AsyncInit == Init

AsyncNext ==
    \/ AsyncEnginePool_new /\ UNCHANGED besideAsync
    \/ EnginePool_shutdown /\ UNCHANGED besidePool
    \/ AsyncEnginePool_acquire /\ UNCHANGED besideAsync
    \/ \E r \in Locals :
         AsyncEnginePool_try_acquire(r) /\ UNCHANGED besideAsync
    \/ \E r \in Locals :
         count_acquisition(r) /\ permit_release /\ UNCHANGED besideAsync
    \/ \E r \in Locals :
         try_acquire_recv(r) /\ permit_release /\ UNCHANGED besideAsync
    \/ \E r \in Locals :
         lazy_load(r) /\ permit_release /\ UNCHANGED besideAsync
    \/ \E r \in Locals :
         lazy_cas(r) /\ permit_release /\ UNCHANGED besideAsync
    \/ \E r \in Locals :
         lazy_new(r) /\ permit_release /\ UNCHANGED besideAsync
    \/ \E r \in Locals : drop(r) /\ UNCHANGED besidePool
    \/ \E r \in Locals : add_execution_time(r) /\ UNCHANGED besidePool
    \/ \E r \in Locals : drop_send(r) /\ UNCHANGED besidePool

AsyncSpec == AsyncInit /\ [][AsyncNext]_vars

C39_State ==
    phase = "ready" =>
      \* a permit is out only while an acquire call is running
      /\ permits + InFlight = size
      \* however many handles are held
      /\ InFlight = 0 => permits = size
      /\ InFlight < size /\ SomeFree
           /\ (is_shutdown \/ acquisitions + InFlight < MaxAcquisitions) =>
             ENABLED AsyncEnginePool_acquire

C39_Step ==
    \* the return of acquire gives the permit back, handle or no handle
    /\ ret'.call = "try_acquire" => permits' = permits + 1
    \* with every engine checked out the call that got its permit fails with
    \* PoolExhausted in the step of its receive
    /\ \A r \in Locals :
         /\ r.op = "try_acquire" /\ r.pc = "recv" /\ Moved(r)
         /\ created = size /\ Len(engine_rx) = 0
         => IF lazy_init
            THEN \* (a lazy pool reads the created-count first)
                 /\ Arrived([ r EXCEPT !.pc = "load" ])
                 /\ UNCHANGED << permits, created, engine_rx >>
            ELSE /\ ret' = Return("try_acquire", "PoolExhausted")
                 /\ permits' = permits + 1
                 /\ LiveTotal' = LiveTotal
    /\ \A r \in Locals :
         r.pc = "load" /\ Moved(r) /\ created = size =>
           /\ ret' = Return("try_acquire", "PoolExhausted")
           /\ permits' = permits + 1
           /\ LiveTotal' = LiveTotal

\* C39: AsyncEnginePool::acquire gives its semaphore permit back when it
\* returns, not when the handle is dropped, so the semaphore does not bound
\* the handles that are out: with all N engines checked out a further
\* acquire finds a permit at once and fails with PoolExhausted instead of
\* waiting for an engine.
C39_PermitNotHeld == [] C39_State /\ [][C39_Step]_vars

\* The one engine of the pool is checked out, the permit is back in the
\* semaphore, and a further acquire has just failed with PoolExhausted.
C39_Witness ==
    /\ size = 1
    /\ LiveTotal = 1
    /\ Quiescent
    /\ permits = size
    /\ ret = Return("try_acquire", "PoolExhausted")

====
